---- MODULE Spec2Model ----
(***************************************************************************)
(* picosend: the in-memory one-time secret store (SecretStore) and the     *)
(* goroutines that call it concurrently.                                   *)
(*                                                                         *)
(* Memory is modelled as the Go runtime lays it out:                       *)
(*   heap     byte arrays backing string values (a Go string is a pointer  *)
(*            to such an array plus a length, and copying a string copies  *)
(*            the pointer, not the bytes);                                 *)
(*   objs     the Secret structs, addressed by pointer;                    *)
(*   secrets  SecretStore.secrets, the map from id to Secret pointer;      *)
(*   mu       SecretStore.mu, the sync.RWMutex.                            *)
(* Every method of SecretStore is a sequence of steps of the calling       *)
(* goroutine (pc); the mutex is what makes the sequence atomic.            *)
(*                                                                         *)
(* Specifications:                                                         *)
(*   Spec      goroutines calling Store, Get, Count and CleanupExpired;    *)
(*   HSpec     the HTTP handlers (create, get, verify) on top of the store;*)
(*   LiveSpec  the cleanup goroutine of main beside the callers, with the  *)
(*             fairness of the ticker, the scheduler and the mutex;        *)
(*   DSpec     one call of decrypt, statement by statement.                *)
(***************************************************************************)
EXTENDS Integers, Sequences, FiniteSets, TLC

\* ------------------------------------------------------------------ bounds
\* Number of goroutines calling the store.
NumProcs == 2
\* Number of values the random source hands out (successful Stores in a run).
MaxIDs == 4
\* The clock runs from 0 to MaxTime.
MaxTime == 1
\* Lifetimes passed to Store range over 0 .. MaxLifetime.
MaxLifetime == 1
\* main.go sets MaxUnreadSecrets = 1000; the model keeps the constant's role
\* and scales its value so that a full store is reachable.
MaxUnreadSecrets == 2

\* main.go sets MaxSecretLength = 65536; scaled like MaxUnreadSecrets, so that
\* the handler's length limit is reached by the payloads of the model.
MaxSecretLength == 1

\* MaxSecretLength of the server that decrypts (65536), in scale with the
\* envelopes sent to it.
MaxSecretLengthV1 == 100

\* time.Duration is an int64 count of nanoseconds and time.Minute is
\* 60 * 10^9 = 2^11 * 3 * 5^10 of them. The model keeps two's complement
\* arithmetic and scales it: a duration is a DurationBits-bit signed count of
\* clock units, and a minute is 2^2 units, so that a product n * Minute
\* wraps to zero and to a negative value for some positive n, as it does in
\* the code. The request's lifetime field, a Go int, has the same width.
DurationBits == 16
Minute == 4
Hour == 60 * Minute
\* Requests are served while the clock is at most MaxClock.
MaxClock == 2 * Minute

Procs == 1..NumProcs
Lifetimes == 0..MaxLifetime
\* Payloads a caller passes to Store, as byte sequences.
Contents == {<<104>>, <<104, 105>>}

VARIABLES
    now,      \* the wall clock read by time.Now()
    heap,     \* address -> byte array (backing store of string values)
    objs,     \* address -> Secret struct
    secrets,  \* SecretStore.secrets: id -> address of the Secret
    mu,       \* SecretStore.mu: [writer, readers, pending]
    drawn,    \* number of values crypto/rand has handed out so far
    pc,       \* per goroutine: the statement it is about to execute
    loc,      \* per goroutine: arguments and local variables of its call
    ret,      \* per goroutine: the value its call returns
    issued,   \* history: id -> what Store recorded, while the secret is held
    fate,     \* history: id -> "live", or how the secret left the store
    req,      \* per goroutine: the HTTP request its handler is serving
    resp,     \* per goroutine: the HTTP response its handler has written
    env       \* a call of decrypt: its arguments, locals and results

\* The state of the HTTP layer and of decrypt, which no method of the store
\* reads or writes.
outside == <<req, resp, env>>

vars == <<now, heap, objs, secrets, mu, drawn, pc, loc, ret, issued, fate, req, resp, env>>

\* ------------------------------------------------------------ Go strings
\* The empty string "".
EmptyString == [ptr |-> 0, len |-> 0]

\* The bytes a string value denotes in heap h.
Bytes(h, s) == IF s.len = 0 THEN << >> ELSE SubSeq(h[s.ptr], 1, s.len)

\* ------------------------------------------------------------ generateID
\* base64.URLEncoding without padding, as positions in the URL-safe alphabet
\* (0..63), four for each group of three bytes.
Sextets(b1, b2, b3) ==
    << b1 \div 4, (b1 % 4) * 16 + (b2 \div 16), (b2 % 16) * 4 + (b3 \div 64), b3 % 64 >>

RECURSIVE EncodeToString(_)
EncodeToString(bytes) ==
    IF Len(bytes) < 3 THEN << >>
    ELSE Sextets(bytes[1], bytes[2], bytes[3]) \o EncodeToString(SubSeq(bytes, 4, Len(bytes)))

\* The 12 bytes rand.Read delivers on its k-th call. crypto/rand is modelled
\* as a stream that does not repeat itself (96 random bits a value).
RandRead(k) == [i \in 1..12 |-> (k * 41 + i * 17) % 256]

\* Faulty variant: every call encodes the same bytes.
generateIDRepeating(k) == EncodeToString(RandRead(1))

generateID(k) == EncodeToString(RandRead(k))

\* Every id a run can see, and one id that Store never returns.
AllIDs == { generateID(k) : k \in 1..MaxIDs }
NoSuchID == << 0 >>

\* ------------------------------------------------------------ wipeSecret
\* Faulty variant: the id is left in the struct.
wipeSecretContentOnly(h, secret) ==
    [secret EXCEPT !.Content = EmptyString]

\* The struct after wipeSecret: both string fields are replaced by "". The
\* byte slices the function zeroes are copies made by the []byte conversion;
\* they are local and dropped on return.
wipeSecret(h, secret) ==
    LET contentBytes == [i \in 1..secret.Content.len |-> 0]
        idBytes == [i \in 1..Len(secret.ID) |-> 0]
    IN  [secret EXCEPT !.Content = EmptyString, !.ID = << >>]

\* Faulty variant: the zeroes are written through to the backing array of
\* the string itself.
wipeHeapInPlace(h, secret) ==
    IF secret.Content.ptr \in DOMAIN h
    THEN [h EXCEPT ![secret.Content.ptr] = [i \in 1..Len(@) |-> 0]]
    ELSE h

\* The heap after wipeSecret: the backing array of the string is not written.
wipeHeap(h, secret) == h

\* Faulty variant: expired from the instant of expiry on.
AfterOrEqual(t, u) == t >= u

\* time.Time.After
After(t, u) == t > u

\* Faulty variant: the entry stays in the map.
deleteNothing(m, k) == m

\* delete(m, k)
delete(m, k) == [x \in DOMAIN m \ {k} |-> m[x]]

\* Faulty variant: one entry too many is let in.
AtCapacityOffByOne(n) == n > MaxUnreadSecrets

\* len(s.secrets) >= MaxUnreadSecrets
AtCapacity(n) == n >= MaxUnreadSecrets

\* ---------------------------------------------------------------- mutex
\* sync.RWMutex: the goroutine holding it for writing, the goroutines holding it
\* for reading, and the goroutine whose Lock has announced itself to the
\* readers and waits for those that hold the mutex to leave (0: none).
Unlocked == [writer |-> 0, readers |-> {}, pending |-> 0]

\* Faulty variant: no mutual exclusion.
CanLockNoMutex(m) == TRUE

\* sync.RWMutex: Lock waits until no writer and no reader holds the mutex.
CanLock(m) == m.writer = 0 /\ m.readers = {}

\* RLock waits until no writer holds the mutex or has announced itself: a
\* Lock that waits for the readers to leave holds back new readers.
CanRLock(m) == m.writer = 0 /\ m.pending = 0

\* ------------------------------------------------------------ HTTP layer
\* Two's complement wrap-around of an integer to DurationBits bits.
Wrap(x) == ((x + 2^(DurationBits - 1)) % 2^DurationBits) - 2^(DurationBits - 1)

\* Faulty variant: no default for a lifetime that is not positive.
ParseLifetimeNoDefault(n) == Wrap(n * Minute)

\* lifetime := time.Duration(req.Lifetime) * time.Minute
\* if req.Lifetime <= 0 { lifetime = 24 * time.Hour }
ParseLifetime(n) == IF n <= 0 THEN 24 * Hour ELSE Wrap(n * Minute)

\* Value of a hexadecimal digit, -1 for any other byte.
HexValue(b) ==
    IF b \in 48..57 THEN b - 48
    ELSE IF b \in 97..102 THEN b - 87
    ELSE IF b \in 65..70 THEN b - 55
    ELSE -1

\* The lower-case hexadecimal digit of n.
HexDigit(n) == IF n < 10 THEN 48 + n ELSE 87 + n

\* UTF-8 encoding of a code point below 2^16 (as \u escapes denote them).
EncodeRune(r) ==
    IF r < 128 THEN << r >>
    ELSE IF r < 2048 THEN << 192 + (r \div 64), 128 + (r % 64) >>
    ELSE << 224 + (r \div 4096), 128 + ((r \div 64) % 64), 128 + (r % 64) >>

\* json.Decoder on the inside of a string literal (the bytes between the
\* quotes): the string it denotes, or failure. The escapes \\ \" and \uXXXX
\* are resolved; a lone backslash, a raw quote and a raw control character
\* are syntax errors.
RECURSIVE unquote(_)
unquote(w) ==
    IF w = << >> THEN [ok |-> TRUE, s |-> << >>]
    ELSE IF w[1] = 92
    THEN IF Len(w) >= 2 /\ w[2] \in {92, 34}
         THEN LET rest == unquote(SubSeq(w, 3, Len(w)))
              IN  [ok |-> rest.ok, s |-> << w[2] >> \o rest.s]
         ELSE IF Len(w) >= 6 /\ w[2] = 117 /\ \A i \in 3..6 : HexValue(w[i]) >= 0
         THEN LET r == HexValue(w[3]) * 4096 + HexValue(w[4]) * 256
                         + HexValue(w[5]) * 16 + HexValue(w[6])
                  rest == unquote(SubSeq(w, 7, Len(w)))
              IN  [ok |-> rest.ok, s |-> EncodeRune(r) \o rest.s]
         ELSE [ok |-> FALSE, s |-> << >>]
    ELSE IF w[1] = 34 \/ w[1] < 32 THEN [ok |-> FALSE, s |-> << >>]
    ELSE LET rest == unquote(Tail(w))
         IN  [ok |-> rest.ok, s |-> << w[1] >> \o rest.s]

\* json.Encoder on a string: the inside of the literal it writes. Quote and
\* backslash are escaped with a backslash; control characters and, the
\* encoder escaping HTML by default, the characters < > & are written as
\* \u00XX.
RECURSIVE appendString(_)
appendString(s) ==
    IF s = << >> THEN << >>
    ELSE (IF s[1] \in {34, 92} THEN << 92, s[1] >>
          ELSE IF s[1] < 32 \/ s[1] \in {60, 62, 38}
          THEN << 92, 117, 48, 48, HexDigit(s[1] \div 16), HexDigit(s[1] % 16) >>
          ELSE << s[1] >>) \o appendString(Tail(s))

\* secret.CreatedAt.Format("2006-01-02 15:04:05 UTC"), as far as the clock of
\* the model goes: the minute and the second (a clock unit is 60 / Minute
\* seconds).
Format(t) == [minute |-> t \div Minute, second |-> (t % Minute) * (60 \div Minute)]

\* A goroutine that serves no request, and a response not yet written.
NoRequest == [kind |-> "none"]
NoResponse == [status |-> 0]

\* http.Error(w, msg, code)
Error(msg, code) == [status |-> code, body |-> [error |-> msg]]

\* Faulty variant: the verify endpoint answers a missing secret with 410.
ResponseByEndpoint(r, result, h) ==
    CASE r.kind = "create" /\ result.kind = "StoreErr" ->
             [status |-> 429,
              body |-> [error |-> "maximum number of unread secrets (%d) reached",
                        n |-> result.max]]
      [] r.kind = "create" /\ result.kind = "StoreOK" ->
             [status |-> 200, body |-> [id |-> result.id]]
      [] r.kind = "get" /\ result.kind = "NotFound" ->
             Error("Secret not found", 404)
      [] r.kind = "verify" /\ result.kind = "NotFound" ->
             Error("Secret not found", 410)
      [] r.kind \in {"get", "verify"} /\ result.kind = "GetOK" ->
             [status |-> 200,
              body |-> [content |-> appendString(Bytes(h, result.secret.Content)),
                        created_at |-> Format(result.secret.CreatedAt)]]
      [] OTHER -> NoResponse

\* What a handler writes once its call to the store has returned result:
\* createSecretHandler after store.Store, getSecretHandler and
\* verifySecretHandler after store.Get. (A goroutine that called the store
\* directly writes nothing.)
Response(r, result, h) ==
    CASE r.kind = "create" /\ result.kind = "StoreErr" ->
             [status |-> 429,
              body |-> [error |-> "maximum number of unread secrets (%d) reached",
                        n |-> result.max]]
      [] r.kind = "create" /\ result.kind = "StoreOK" ->
             [status |-> 200, body |-> [id |-> result.id]]
      [] r.kind \in {"get", "verify"} /\ result.kind = "NotFound" ->
             Error("Secret not found", 404)
      [] r.kind \in {"get", "verify"} /\ result.kind = "GetOK" ->
             [status |-> 200,
              body |-> [content |-> appendString(Bytes(h, result.secret.Content)),
                        created_at |-> Format(result.secret.CreatedAt)]]
      [] OTHER -> NoResponse

\* -------------------------------------------------------------- decrypt
\* aes.BlockSize
BlockSize == 16

\* Exclusive or of two bytes.
RECURSIVE Xor(_, _)
Xor(a, b) == IF a = 0 /\ b = 0 THEN 0 ELSE ((a + b) % 2) + 2 * Xor(a \div 2, b \div 2)

XorBytes(x, y) == [i \in 1..Len(x) |-> Xor(x[i], y[i])]

\* base64.StdEncoding: the character of a sextet, and the sextet of a
\* character (-1 for a byte outside the alphabet).
StdChar(v) ==
    IF v < 26 THEN 65 + v
    ELSE IF v < 52 THEN 97 + (v - 26)
    ELSE IF v < 62 THEN 48 + (v - 52)
    ELSE IF v = 62 THEN 43 ELSE 47

StdValue(c) ==
    IF c \in 65..90 THEN c - 65
    ELSE IF c \in 97..122 THEN c - 97 + 26
    ELSE IF c \in 48..57 THEN c - 48 + 52
    ELSE IF c = 43 THEN 62
    ELSE IF c = 47 THEN 63
    ELSE -1

\* base64.StdEncoding.EncodeToString, with = padding.
RECURSIVE StdEncodeToString(_)
StdEncodeToString(bytes) ==
    IF bytes = << >> THEN << >>
    ELSE IF Len(bytes) = 1
    THEN LET q == Sextets(bytes[1], 0, 0)
         IN  << StdChar(q[1]), StdChar(q[2]), 61, 61 >>
    ELSE IF Len(bytes) = 2
    THEN LET q == Sextets(bytes[1], bytes[2], 0)
         IN  << StdChar(q[1]), StdChar(q[2]), StdChar(q[3]), 61 >>
    ELSE LET q == Sextets(bytes[1], bytes[2], bytes[3])
         IN  << StdChar(q[1]), StdChar(q[2]), StdChar(q[3]), StdChar(q[4]) >>
                 \o StdEncodeToString(SubSeq(bytes, 4, Len(bytes)))

\* base64.StdEncoding.DecodeString: the bytes, or failure (a byte outside
\* the alphabet, a length that is not a multiple of four, padding elsewhere
\* than at the end).
RECURSIVE DecodeString(_)
DecodeString(s) ==
    IF s = << >> THEN [ok |-> TRUE, bytes |-> << >>]
    ELSE IF Len(s) < 4 THEN [ok |-> FALSE, bytes |-> << >>]
    ELSE LET v == [i \in 1..4 |-> StdValue(s[i])]
         IN  IF \A i \in 1..4 : v[i] >= 0
             THEN LET rest == DecodeString(SubSeq(s, 5, Len(s)))
                  IN  [ok |-> rest.ok,
                       bytes |-> << v[1] * 4 + (v[2] \div 16),
                                    (v[2] % 16) * 16 + (v[3] \div 4),
                                    (v[3] % 4) * 64 + v[4] >> \o rest.bytes]
             ELSE IF Len(s) = 4 /\ s[4] = 61 /\ s[3] = 61 /\ v[1] >= 0 /\ v[2] >= 0
             THEN [ok |-> TRUE, bytes |-> << v[1] * 4 + (v[2] \div 16) >>]
             ELSE IF Len(s) = 4 /\ s[4] = 61 /\ v[1] >= 0 /\ v[2] >= 0 /\ v[3] >= 0
             THEN [ok |-> TRUE, bytes |-> << v[1] * 4 + (v[2] \div 16),
                                             (v[2] % 16) * 16 + (v[3] \div 4) >>]
             ELSE [ok |-> FALSE, bytes |-> << >>]

\* aes.NewCipher accepts keys of 16, 24 and 32 bytes.
KeySizeOK(key) == Len(key) \in {16, 24, 32}

\* The block cipher. crypto/aes is represented by a keyed permutation of the
\* 16-byte blocks: Encipher turns the block by one position and adds the key
\* byte by byte, Decipher undoes it.
Encipher(key, block) ==
    [i \in 1..BlockSize |-> (block[(i % BlockSize) + 1] + key[i]) % 256]

Decipher(key, block) ==
    [j \in 1..BlockSize |->
        LET i == ((j - 2) % BlockSize) + 1 IN (block[i] - key[i]) % 256]

\* cipher.NewCBCEncrypter(block, iv).CryptBlocks over whole blocks.
RECURSIVE CBCEncrypt(_, _, _)
CBCEncrypt(key, iv, plain) ==
    IF Len(plain) < BlockSize THEN << >>
    ELSE LET c == Encipher(key, XorBytes(SubSeq(plain, 1, BlockSize), iv))
         IN  c \o CBCEncrypt(key, c, SubSeq(plain, BlockSize + 1, Len(plain)))

\* cipher.NewCBCDecrypter(block, iv).CryptBlocks over whole blocks.
RECURSIVE CBCDecrypt(_, _, _)
CBCDecrypt(key, iv, ciphertext) ==
    IF Len(ciphertext) < BlockSize THEN << >>
    ELSE LET c == SubSeq(ciphertext, 1, BlockSize)
         IN  XorBytes(Decipher(key, c), iv)
                 \o CBCDecrypt(key, c, SubSeq(ciphertext, BlockSize + 1, Len(ciphertext)))

\* Faulty variant: a plaintext of whole blocks gets no pad block.
PadUnlessAligned(plainBytes) ==
    LET padding == (BlockSize - (Len(plainBytes) % BlockSize)) % BlockSize
    IN  plainBytes \o [i \in 1..padding |-> padding]

\* The PKCS7 padding simulateEncryption adds: 1 to 16 bytes, each the count.
Pad(plainBytes) ==
    LET padding == BlockSize - (Len(plainBytes) % BlockSize)
    IN  plainBytes \o [i \in 1..padding |-> padding]

\* simulateEncryption(plaintext, keyBase64), iv being the bytes rand.Read
\* delivers: base64(iv || CBC(key, iv, padded plaintext)), or an error.
simulateEncryption(plaintext, keyBase64, iv) ==
    LET key == DecodeString(keyBase64)
    IN  IF ~key.ok THEN [out |-> << >>, err |-> "illegal base64 data"]
        ELSE IF ~KeySizeOK(key.bytes)
        THEN [out |-> << >>, err |-> "crypto/aes: invalid key size"]
        ELSE [out |-> StdEncodeToString(iv \o CBCEncrypt(key.bytes, iv, Pad(plaintext))),
              err |-> ""]

\* Faulty variant: the alignment is tested before the length.
LengthErrorAlignFirst(ciphertext) ==
    IF Len(ciphertext) % BlockSize # 0
    THEN "ciphertext is not a multiple of the block size"
    ELSE IF Len(ciphertext) < BlockSize THEN "ciphertext too short"
    ELSE IF Len(ciphertext) - BlockSize = 0 THEN "no ciphertext after IV"
    ELSE ""

\* Faulty variant: the alignment is not tested.
LengthErrorNoAlign(ciphertext) ==
    IF Len(ciphertext) < BlockSize THEN "ciphertext too short"
    ELSE IF Len(ciphertext) - BlockSize = 0 THEN "no ciphertext after IV"
    ELSE ""

\* Faulty variant: an IV with nothing after it is let through.
LengthErrorNoEmpty(ciphertext) ==
    IF Len(ciphertext) < BlockSize THEN "ciphertext too short"
    ELSE IF Len(ciphertext) % BlockSize # 0
    THEN "ciphertext is not a multiple of the block size"
    ELSE ""

\* The three length checks of decrypt on the decoded data (the IV and what
\* follows it): the error returned, "" for none.
LengthError(ciphertext) ==
    IF Len(ciphertext) < BlockSize THEN "ciphertext too short"
    ELSE IF Len(ciphertext) % BlockSize # 0
    THEN "ciphertext is not a multiple of the block size"
    ELSE IF Len(ciphertext) - BlockSize = 0 THEN "no ciphertext after IV"
    ELSE ""

\* Faulty variant: only the count byte is looked at.
PaddingErrorCountOnly(d) ==
    LET padding == d[Len(d)]
    IN  IF padding > BlockSize \/ padding = 0 THEN "invalid padding"
        ELSE IF Len(d) < padding THEN "padding size larger than ciphertext"
        ELSE ""

\* The padding validation of decrypt on the decrypted bytes d: the error it
\* returns, "" for none.
PaddingError(d) ==
    IF Len(d) = 0 THEN "empty ciphertext after decryption"
    ELSE LET padding == d[Len(d)]
         IN  IF padding > BlockSize \/ padding = 0 THEN "invalid padding"
             ELSE IF Len(d) < padding THEN "padding size larger than ciphertext"
             ELSE IF \E i \in (Len(d) - padding + 1)..Len(d) : d[i] # padding
             THEN "invalid PKCS7 padding"
             ELSE ""

\* No call of decrypt is in progress.
NoCall == [pc |-> "none"]

\* ------------------------------------------------------------ goroutines
\* Local variables of a goroutine that is not inside a call.
NoLocals ==
    [id |-> << >>, content |-> << >>, lifetime |-> 0, secret |-> 0,
     copy |-> << >>, now |-> 0, count |-> 0, todo |-> {}, before |-> {}]

NoResult == [kind |-> "none"]

\* What the garbage collector keeps once goroutine p has returned: the structs
\* the map or another goroutine's locals point to, and the byte arrays those
\* structs or another goroutine's locals point to.
LiveObjs(p, m, o) ==
    {a \in DOMAIN o : (\E id \in DOMAIN m : m[id] = a) \/ (\E q \in Procs \ {p} : loc[q].secret = a)}

LiveCells(p, m, o, h) ==
    {c \in DOMAIN h : \/ \E a \in LiveObjs(p, m, o) : o[a].Content.ptr = c
                      \/ \E q \in Procs \ {p} : loc[q].copy # << >> /\ loc[q].copy.Content.ptr = c}

\* NewSecretStore, and the process before any request.
Init ==
    /\ now = 0
    /\ heap = << >>
    /\ objs = << >>
    /\ secrets = << >>
    /\ mu = Unlocked
    /\ drawn = 0
    /\ pc = [p \in Procs |-> "idle"]
    /\ loc = [p \in Procs |-> NoLocals]
    /\ ret = [p \in Procs |-> NoResult]
    /\ issued = << >>
    /\ fate = << >>
    /\ req = [p \in Procs |-> NoRequest]
    /\ resp = [p \in Procs |-> NoResponse]
    /\ env = NoCall

\* Time passes.
Tick ==
    /\ now < MaxTime
    /\ now' = now + 1
    /\ UNCHANGED <<heap, objs, secrets, mu, drawn, pc, loc, ret, issued, fate>>
    /\ UNCHANGED outside

\* s.mu.Lock() at the head of Store, Get and CleanupExpired: the goroutine
\* takes the mutex if it is free; if only readers hold it, the goroutine
\* announces itself, and takes the mutex once they have left.
Lock(p) ==
    /\ pc[p] \in {"Store_lock", "Get_lock", "Cleanup_lock"}
    /\ mu.pending \in {0, p}
    /\ IF CanLock(mu)
       THEN /\ mu' = [mu EXCEPT !.writer = p, !.pending = 0]
            /\ pc' = [pc EXCEPT ![p] = CASE pc[p] = "Store_lock" -> "Store_check"
                                         [] pc[p] = "Get_lock" -> "Get_lookup"
                                         [] OTHER -> "Cleanup_now"]
       ELSE /\ mu.writer = 0
            /\ mu.pending = 0
            /\ mu' = [mu EXCEPT !.pending = p]
            /\ pc' = pc
    /\ UNCHANGED <<now, heap, objs, secrets, drawn, loc, ret, issued, fate>>
    /\ UNCHANGED outside

\* defer s.mu.Unlock(): runs as the method returns, the result being set. The
\* caller takes the result and goes on; what the call leaves unreferenced (the
\* argument of a Store that stored nothing, a removed Secret, the returned
\* copy once used) is garbage from here on. When the caller is a handler, it
\* writes its response from the result.
Unlock(p) ==
    /\ pc[p] = "unlock"
    /\ mu' = [mu EXCEPT !.writer = IF mu.writer = p THEN 0 ELSE mu.writer]
    /\ pc' = [pc EXCEPT ![p] = IF req[p] = NoRequest THEN "idle" ELSE "respond"]
    /\ resp' = [resp EXCEPT ![p] = Response(req[p], ret[p], heap)]
    /\ loc' = [loc EXCEPT ![p] = NoLocals]
    /\ ret' = [ret EXCEPT ![p] = NoResult]
    /\ objs' = [a \in LiveObjs(p, secrets, objs) |-> objs[a]]
    /\ heap' = [c \in LiveCells(p, secrets, objs, heap) |-> heap[c]]
    /\ issued' = [id \in {i \in DOMAIN issued : fate[i] = "live"} |-> issued[id]]
    /\ UNCHANGED <<now, secrets, drawn, fate, req, env>>

\* ----------------------------------------------------------------- Store
\* Number of Store calls in progress that have not yet drawn their id.
PendingStores == Cardinality({p \in Procs : pc[p] \in {"Store_lock", "Store_check", "Store_insert"}})

\* A goroutine calls store.Store(content, lifetime). The content string is the
\* caller's own until Store keeps a reference to it: its backing array enters
\* heap, under the address the Secret points to, when the Secret is built.
StoreCall(p, c, l) ==
    /\ pc[p] = "idle"
    /\ drawn + PendingStores < MaxIDs
    /\ loc' = [loc EXCEPT ![p] = [NoLocals EXCEPT !.content = c, !.lifetime = l]]
    /\ pc' = [pc EXCEPT ![p] = "Store_lock"]
    /\ UNCHANGED <<now, heap, objs, secrets, mu, drawn, ret, issued, fate>>
    /\ UNCHANGED outside

\* A variant of the check that, at capacity, first drops the entries that have
\* expired.
StoreCheckEvicting(p) ==
    /\ pc[p] = "Store_check"
    /\ LET kept == {id \in DOMAIN secrets : ~After(now, objs[secrets[id]].ExpiresAt)}
       IN  IF AtCapacity(Cardinality(DOMAIN secrets)) /\ kept = DOMAIN secrets
           THEN /\ ret' = [ret EXCEPT ![p] = [kind |-> "StoreErr", id |-> << >>, max |-> MaxUnreadSecrets]]
                /\ pc' = [pc EXCEPT ![p] = "unlock"]
                /\ secrets' = secrets
           ELSE /\ ret' = ret
                /\ pc' = [pc EXCEPT ![p] = "Store_insert"]
                /\ secrets' = IF AtCapacity(Cardinality(DOMAIN secrets))
                              THEN [id \in kept |-> secrets[id]]
                              ELSE secrets
    /\ UNCHANGED <<now, heap, objs, mu, drawn, loc, issued, fate>>
    /\ UNCHANGED outside

\* A variant of the check whose capacity-error path returns with the mutex
\* still held.
StoreCheckKeepsMutex(p) ==
    /\ pc[p] = "Store_check"
    /\ IF AtCapacity(Cardinality(DOMAIN secrets))
       THEN /\ ret' = ret
            /\ pc' = [pc EXCEPT ![p] = "idle"]
            /\ loc' = [loc EXCEPT ![p] = NoLocals]
       ELSE /\ ret' = ret
            /\ pc' = [pc EXCEPT ![p] = "Store_insert"]
            /\ loc' = loc
    /\ UNCHANGED <<now, heap, objs, secrets, mu, drawn, issued, fate>>
    /\ UNCHANGED outside

\* if len(s.secrets) >= MaxUnreadSecrets { return "", error }
StoreCheck(p) ==
    /\ pc[p] = "Store_check"
    /\ IF AtCapacity(Cardinality(DOMAIN secrets))
       THEN /\ ret' = [ret EXCEPT ![p] = [kind |-> "StoreErr", id |-> << >>, max |-> MaxUnreadSecrets]]
            /\ pc' = [pc EXCEPT ![p] = "unlock"]
       ELSE /\ ret' = ret
            /\ pc' = [pc EXCEPT ![p] = "Store_insert"]
    /\ UNCHANGED <<now, heap, objs, secrets, mu, drawn, loc, issued, fate>>
    /\ UNCHANGED outside

\* id := generateID(); now := time.Now(); s.secrets[id] = &Secret{...}; return id, nil
StoreInsert(p) ==
    /\ pc[p] = "Store_insert"
    /\ LET id == generateID(drawn + 1)
           a == drawn + 1
           content == [ptr |-> a, len |-> Len(loc[p].content)]
           secret == [ID |-> id, Content |-> content, CreatedAt |-> now,
                      ExpiresAt |-> now + loc[p].lifetime]
       IN  /\ objs' = (a :> secret) @@ objs
           /\ heap' = (a :> loc[p].content) @@ heap
           /\ secrets' = (id :> a) @@ secrets
           /\ ret' = [ret EXCEPT ![p] = [kind |-> "StoreOK", id |-> id]]
           /\ issued' = (id :> [ID |-> id, Content |-> loc[p].content, ptr |-> a,
                                CreatedAt |-> now, ExpiresAt |-> now + loc[p].lifetime]) @@ issued
           /\ fate' = (id :> IF id \in DOMAIN fate THEN "reissued" ELSE "live") @@ fate
    /\ drawn' = drawn + 1
    /\ pc' = [pc EXCEPT ![p] = "unlock"]
    /\ UNCHANGED <<now, mu, loc>>
    /\ UNCHANGED outside

\* ------------------------------------------------------------------- Get
\* A goroutine calls store.Get(id), with an id some Store has returned or
\* with one that none has.
GetCall(p, id) ==
    /\ pc[p] = "idle"
    /\ loc' = [loc EXCEPT ![p] = [NoLocals EXCEPT !.id = id]]
    /\ pc' = [pc EXCEPT ![p] = "Get_lock"]
    /\ UNCHANGED <<now, heap, objs, secrets, mu, drawn, ret, issued, fate>>
    /\ UNCHANGED outside

\* secret, exists := s.secrets[id]; if !exists { return nil, false }
GetLookup(p) ==
    /\ pc[p] = "Get_lookup"
    /\ IF loc[p].id \in DOMAIN secrets
       THEN /\ loc' = [loc EXCEPT ![p].secret = secrets[loc[p].id], ![p].before = DOMAIN secrets]
            /\ ret' = ret
            /\ pc' = [pc EXCEPT ![p] = "Get_check"]
       ELSE /\ loc' = loc
            /\ ret' = [ret EXCEPT ![p] = [kind |-> "NotFound"]]
            /\ pc' = [pc EXCEPT ![p] = "unlock"]
    /\ UNCHANGED <<now, heap, objs, secrets, mu, drawn, issued, fate>>
    /\ UNCHANGED outside

\* The secret left the store by way w; a second departure of the same id is
\* recorded as such.
Leaves(f, id, w) ==
    IF id \notin DOMAIN f THEN f
    ELSE [f EXCEPT ![id] = IF f[id] = "live" THEN w ELSE "twice"]

\* if time.Now().After(secret.ExpiresAt) { wipeSecret(secret); delete(s.secrets, id); return nil, false }
\* (loc.now keeps the value time.Now() returned.)
GetExpired(p) ==
    /\ pc[p] = "Get_check"
    /\ After(now, objs[loc[p].secret].ExpiresAt)
    /\ objs' = [objs EXCEPT ![loc[p].secret] = wipeSecret(heap, objs[loc[p].secret])]
    /\ heap' = wipeHeap(heap, objs[loc[p].secret])
    /\ secrets' = delete(secrets, loc[p].id)
    /\ ret' = [ret EXCEPT ![p] = [kind |-> "NotFound"]]
    /\ fate' = Leaves(fate, loc[p].id, "expired")
    /\ loc' = [loc EXCEPT ![p].now = now]
    /\ pc' = [pc EXCEPT ![p] = "unlock"]
    /\ UNCHANGED <<now, mu, drawn, issued>>
    /\ UNCHANGED outside

\* secretCopy := &Secret{ID: secret.ID, Content: secret.Content, ...}
GetCopy(p) ==
    /\ pc[p] = "Get_check"
    /\ ~After(now, objs[loc[p].secret].ExpiresAt)
    /\ loc' = [loc EXCEPT ![p].now = now,
                          ![p].copy = [ID |-> objs[loc[p].secret].ID,
                                       Content |-> objs[loc[p].secret].Content,
                                       CreatedAt |-> objs[loc[p].secret].CreatedAt,
                                       ExpiresAt |-> objs[loc[p].secret].ExpiresAt]]
    /\ pc' = [pc EXCEPT ![p] = "Get_wipe"]
    /\ UNCHANGED <<now, heap, objs, secrets, mu, drawn, ret, issued, fate>>
    /\ UNCHANGED outside

\* wipeSecret(secret)
GetWipe(p) ==
    /\ pc[p] = "Get_wipe"
    /\ objs' = [objs EXCEPT ![loc[p].secret] = wipeSecret(heap, objs[loc[p].secret])]
    /\ heap' = wipeHeap(heap, objs[loc[p].secret])
    /\ pc' = [pc EXCEPT ![p] = "Get_delete"]
    /\ UNCHANGED <<now, secrets, mu, drawn, loc, ret, issued, fate>>
    /\ UNCHANGED outside

\* delete(s.secrets, id); return secretCopy, true
GetDelete(p) ==
    /\ pc[p] = "Get_delete"
    /\ secrets' = delete(secrets, loc[p].id)
    /\ ret' = [ret EXCEPT ![p] = [kind |-> "GetOK", secret |-> loc[p].copy]]
    /\ fate' = Leaves(fate, loc[p].id, "read")
    /\ pc' = [pc EXCEPT ![p] = "unlock"]
    /\ UNCHANGED <<now, heap, objs, mu, drawn, loc, issued>>
    /\ UNCHANGED outside

\* ----------------------------------------------------------------- Count
\* A goroutine calls store.Count().
CountCall(p) ==
    /\ pc[p] = "idle"
    /\ pc' = [pc EXCEPT ![p] = "Count_rlock"]
    /\ UNCHANGED <<now, heap, objs, secrets, mu, drawn, loc, ret, issued, fate>>
    /\ UNCHANGED outside

\* s.mu.RLock()
RLock(p) ==
    /\ pc[p] = "Count_rlock"
    /\ CanRLock(mu)
    /\ mu' = [mu EXCEPT !.readers = @ \cup {p}]
    /\ pc' = [pc EXCEPT ![p] = "Count_len"]
    /\ UNCHANGED <<now, heap, objs, secrets, drawn, loc, ret, issued, fate>>
    /\ UNCHANGED outside

\* return len(s.secrets)
CountLen(p) ==
    /\ pc[p] = "Count_len"
    /\ ret' = [ret EXCEPT ![p] = [kind |-> "Count", n |-> Cardinality(DOMAIN secrets)]]
    /\ pc' = [pc EXCEPT ![p] = "runlock"]
    /\ UNCHANGED <<now, heap, objs, secrets, mu, drawn, loc, issued, fate>>
    /\ UNCHANGED outside

\* defer s.mu.RUnlock()
RUnlock(p) ==
    /\ pc[p] = "runlock"
    /\ mu' = [mu EXCEPT !.readers = @ \ {p}]
    /\ pc' = [pc EXCEPT ![p] = "idle"]
    /\ ret' = [ret EXCEPT ![p] = NoResult]
    /\ UNCHANGED <<now, heap, objs, secrets, drawn, loc, issued, fate>>
    /\ UNCHANGED outside

\* -------------------------------------------------------- CleanupExpired
\* A goroutine (the ticker loop of main, or a test) calls store.CleanupExpired().
CleanupCall(p) ==
    /\ pc[p] = "idle"
    /\ pc' = [pc EXCEPT ![p] = "Cleanup_lock"]
    /\ UNCHANGED <<now, heap, objs, secrets, mu, drawn, loc, ret, issued, fate>>
    /\ UNCHANGED outside

\* now := time.Now(); count := 0; the range statement starts over the map.
\* (before: the keys the map holds as the sweep starts, kept for reference.)
CleanupNow(p) ==
    /\ pc[p] = "Cleanup_now"
    /\ loc' = [loc EXCEPT ![p] = [NoLocals EXCEPT !.now = now, !.count = 0,
                                                 !.todo = DOMAIN secrets,
                                                 !.before = DOMAIN secrets]]
    /\ pc' = [pc EXCEPT ![p] = "Cleanup_range"]
    /\ UNCHANGED <<now, heap, objs, secrets, mu, drawn, ret, issued, fate>>
    /\ UNCHANGED outside

\* A variant of the iteration that also removes an entry whose expires_at is
\* the time the sweep read.
CleanupVisitAtOrAfter(p, id) ==
    /\ pc[p] = "Cleanup_range"
    /\ id \in loc[p].todo
    /\ IF id \in DOMAIN secrets /\ AfterOrEqual(loc[p].now, objs[secrets[id]].ExpiresAt)
       THEN /\ objs' = [objs EXCEPT ![secrets[id]] = wipeSecret(heap, objs[secrets[id]])]
            /\ heap' = wipeHeap(heap, objs[secrets[id]])
            /\ secrets' = delete(secrets, id)
            /\ loc' = [loc EXCEPT ![p].count = @ + 1, ![p].todo = @ \ {id}]
            /\ fate' = Leaves(fate, id, "swept")
       ELSE /\ loc' = [loc EXCEPT ![p].todo = @ \ {id}]
            /\ UNCHANGED <<objs, heap, secrets, fate>>
    /\ UNCHANGED <<now, mu, drawn, pc, ret, issued>>
    /\ UNCHANGED outside

\* One iteration of the range loop, over an entry the loop has not yet seen
\* (Go ranges over a map in no fixed order; a deleted entry is not produced):
\* if now.After(secret.ExpiresAt) { wipeSecret(secret); delete(s.secrets, id); count++ }
CleanupVisit(p, id) ==
    /\ pc[p] = "Cleanup_range"
    /\ id \in loc[p].todo
    /\ IF id \in DOMAIN secrets /\ After(loc[p].now, objs[secrets[id]].ExpiresAt)
       THEN /\ objs' = [objs EXCEPT ![secrets[id]] = wipeSecret(heap, objs[secrets[id]])]
            /\ heap' = wipeHeap(heap, objs[secrets[id]])
            /\ secrets' = delete(secrets, id)
            /\ loc' = [loc EXCEPT ![p].count = @ + 1, ![p].todo = @ \ {id}]
            /\ fate' = Leaves(fate, id, "swept")
       ELSE /\ loc' = [loc EXCEPT ![p].todo = @ \ {id}]
            /\ UNCHANGED <<objs, heap, secrets, fate>>
    /\ UNCHANGED <<now, mu, drawn, pc, ret, issued>>
    /\ UNCHANGED outside

\* The range is exhausted: return count
CleanupReturn(p) ==
    /\ pc[p] = "Cleanup_range"
    /\ loc[p].todo = {}
    /\ ret' = [ret EXCEPT ![p] = [kind |-> "Cleanup", count |-> loc[p].count]]
    /\ pc' = [pc EXCEPT ![p] = "unlock"]
    /\ UNCHANGED <<now, heap, objs, secrets, mu, drawn, loc, issued, fate>>
    /\ UNCHANGED outside

\* ----------------------------------------------------------- HTTP handlers
\* Bodies of POST /api/secrets: the content as the literal the client wrote
\* and the lifetime in minutes (0 also stands for a body without the field,
\* which json leaves at the zero value). The literals are "h"; "\u003Ci",
\* which denotes <i and is as long as the handler allows; "hih", too long;
\* the empty string; and a literal that ends in a lone backslash. The
\* lifetimes are negative, absent, one minute, and the least positive value
\* whose product with Minute wraps to zero.
Body(content, lifetime) == [content |-> content, lifetime |-> lifetime]

CreateBodies ==
    { Body(<<104>>, 1),
      Body(<<92, 117, 48, 48, 51, 67, 105>>, 0),
      Body(<<92, 117, 48, 48, 51, 67, 105>>, -1),
      Body(<<104>>, 2^(DurationBits - 2)),
      Body(<< >>, 1),
      Body(<<104, 105, 104>>, 1),
      Body(<<92>>, 1) }

\* Bodies of POST /api/secrets/{id}/verify: the verification code as a
\* literal ("123456" and "12345").
VerifyBodies ==
    [verification_code : { <<49, 50, 51, 52, 53, 54>>, <<49, 50, 51, 52, 53>> }]

\* Faulty variant: one byte more than the limit is let in.
TooLongOffByOne(n) == n > MaxSecretLength * 2 + 1

\* len(req.Content) > MaxSecretLength*2
TooLong(n) == n > MaxSecretLength * 2

\* Successful and pending creations a run of the handlers goes through.
MaxCreated == MaxUnreadSecrets + 1

\* Time passes while requests are served.
Elapse(d) ==
    /\ now + d <= MaxClock
    /\ now' = now + d
    /\ UNCHANGED <<heap, objs, secrets, mu, drawn, pc, loc, ret, issued, fate>>
    /\ UNCHANGED outside

\* createSecretHandler up to its call of store.Store: the body is decoded and
\* validated, and the lifetime parsed.
CreateRequest(p, body) ==
    /\ pc[p] = "idle"
    /\ drawn + PendingStores < MaxCreated
    /\ req' = [req EXCEPT ![p] = [kind |-> "create", body |-> body]]
    /\ LET Content == unquote(body.content)
       IN  IF ~Content.ok
           THEN /\ resp' = [resp EXCEPT ![p] = Error("Invalid JSON", 400)]
                /\ pc' = [pc EXCEPT ![p] = "respond"]
                /\ loc' = loc
           ELSE IF Content.s = << >>
           THEN /\ resp' = [resp EXCEPT ![p] = Error("Content cannot be empty", 400)]
                /\ pc' = [pc EXCEPT ![p] = "respond"]
                /\ loc' = loc
           ELSE IF TooLong(Len(Content.s))
           THEN /\ resp' = [resp EXCEPT ![p] =
                               [status |-> 400,
                                body |-> [error |-> "Content exceeds maximum length of %d characters",
                                          n |-> MaxSecretLength * 2]]]
                /\ pc' = [pc EXCEPT ![p] = "respond"]
                /\ loc' = loc
           ELSE /\ resp' = resp
                /\ pc' = [pc EXCEPT ![p] = "Store_lock"]
                /\ loc' = [loc EXCEPT ![p] = [NoLocals EXCEPT !.content = Content.s,
                                                             !.lifetime = ParseLifetime(body.lifetime)]]
    /\ UNCHANGED <<now, heap, objs, secrets, mu, drawn, ret, issued, fate, env>>

\* getSecretHandler up to its call of store.Get: id := mux.Vars(r)["id"]
GetRequest(p, id) ==
    /\ pc[p] = "idle"
    /\ req' = [req EXCEPT ![p] = [kind |-> "get", id |-> id]]
    /\ loc' = [loc EXCEPT ![p] = [NoLocals EXCEPT !.id = id]]
    /\ pc' = [pc EXCEPT ![p] = "Get_lock"]
    /\ UNCHANGED <<now, heap, objs, secrets, mu, drawn, ret, issued, fate, resp, env>>

\* Faulty variant: only the empty code is turned away.
InvalidCodeEmptyOnly(code) == code = << >>

\* req.VerificationCode == "" || len(req.VerificationCode) != 6, len being
\* the number of bytes of the string.
InvalidCode(code) == code = << >> \/ Len(code) # 6

\* Faulty variant: store.Get is called before the body is looked at.
VerifyRequestGetFirst(p, id, body) ==
    /\ pc[p] = "idle"
    /\ req' = [req EXCEPT ![p] = [kind |-> "verify", id |-> id, body |-> body]]
    /\ loc' = [loc EXCEPT ![p] = [NoLocals EXCEPT !.id = id]]
    /\ pc' = [pc EXCEPT ![p] = "Get_lock"]
    /\ UNCHANGED <<now, heap, objs, secrets, mu, drawn, ret, issued, fate, resp, env>>

\* verifySecretHandler up to its call of store.Get: the body is decoded and
\* the verification code must be six bytes long.
VerifyRequest(p, id, body) ==
    /\ pc[p] = "idle"
    /\ req' = [req EXCEPT ![p] = [kind |-> "verify", id |-> id, body |-> body]]
    /\ LET VerificationCode == unquote(body.verification_code)
       IN  IF ~VerificationCode.ok
           THEN /\ resp' = [resp EXCEPT ![p] = Error("Invalid JSON", 400)]
                /\ pc' = [pc EXCEPT ![p] = "respond"]
                /\ loc' = loc
           ELSE IF InvalidCode(VerificationCode.s)
           THEN /\ resp' = [resp EXCEPT ![p] = Error("Invalid verification code", 400)]
                /\ pc' = [pc EXCEPT ![p] = "respond"]
                /\ loc' = loc
           ELSE /\ resp' = resp
                /\ pc' = [pc EXCEPT ![p] = "Get_lock"]
                /\ loc' = [loc EXCEPT ![p] = [NoLocals EXCEPT !.id = id]]
    /\ UNCHANGED <<now, heap, objs, secrets, mu, drawn, ret, issued, fate, env>>

\* The handler returns, its response written; the goroutine is free for the
\* next request.
Done(p) ==
    /\ pc[p] = "respond"
    /\ pc' = [pc EXCEPT ![p] = "idle"]
    /\ req' = [req EXCEPT ![p] = NoRequest]
    /\ resp' = [resp EXCEPT ![p] = NoResponse]
    /\ UNCHANGED <<now, heap, objs, secrets, mu, drawn, loc, ret, issued, fate, env>>

\* The server: every goroutine serves one request after the other.
HNext ==
    \/ Elapse(MaxClock)
    \/ \E p \in Procs, body \in CreateBodies : CreateRequest(p, body)
    \/ \E p \in Procs, id \in DOMAIN fate \cup {NoSuchID} : GetRequest(p, id)
    \/ \E p \in Procs, id \in DOMAIN fate \cup {NoSuchID}, body \in VerifyBodies : VerifyRequest(p, id, body)
    \/ \E p \in Procs : Done(p)
    \/ \E p \in Procs : Lock(p)
    \/ \E p \in Procs : Unlock(p)
    \/ \E p \in Procs : StoreCheck(p)
    \/ \E p \in Procs : StoreInsert(p)
    \/ \E p \in Procs : GetLookup(p)
    \/ \E p \in Procs : GetExpired(p)
    \/ \E p \in Procs : GetCopy(p)
    \/ \E p \in Procs : GetWipe(p)
    \/ \E p \in Procs : GetDelete(p)

HSpec == Init /\ [][HNext]_vars

\* ------------------------------------------------- verify and view pages
\* Bodies of POST /api/secrets/{id}/verify, the verification code as the
\* literal the client wrote: "123456", "000000", the empty code, "12345",
\* "1234567", a lone backslash (not JSON), and two codes with the letter
\* e-acute, which UTF-8 writes in two bytes: five digits and the letter (six
\* characters, seven bytes) and four digits and the letter (five
\* characters, six bytes).
VerifyCodes ==
    [verification_code :
        { <<49, 50, 51, 52, 53, 54>>,
          <<48, 48, 48, 48, 48, 48>>,
          << >>,
          <<49, 50, 51, 52, 53>>,
          <<49, 50, 51, 52, 53, 54, 55>>,
          <<92>>,
          <<49, 50, 51, 52, 53, 195, 169>>,
          <<49, 50, 51, 52, 195, 169>> }]

\* What viewSecretHandler reads of a request to GET /s/{id}: the header
\* X-Forwarded-Proto ("" when absent), whether the connection is TLS, and
\* the Host header.
ViewRequests ==
    { [proto |-> "", tls |-> FALSE, host |-> "example.com"],
      [proto |-> "", tls |-> FALSE, host |-> "localhost:8080"],
      [proto |-> "http", tls |-> TRUE, host |-> "example.com"] }

\* strings.Contains(r.Host, "localhost") || strings.Contains(r.Host, "127.0.0.1"),
\* over the hosts of the model.
IsLocal(host) == host \in {"localhost:8080", "127.0.0.1:8080"}

\* The scheme viewSecretHandler puts into the URLs of the page.
Scheme(r) ==
    IF r.proto # "" THEN r.proto
    ELSE IF ~r.tls /\ ~IsLocal(r.host) THEN "http"
    ELSE "https"

\* Faulty variant: the page handler looks the secret up.
ViewRequestReading(p, id, r) ==
    /\ pc[p] = "idle"
    /\ req' = [req EXCEPT ![p] = [kind |-> "view", id |-> id, r |-> r]]
    /\ loc' = [loc EXCEPT ![p] = [NoLocals EXCEPT !.id = id]]
    /\ pc' = [pc EXCEPT ![p] = "Get_lock"]
    /\ UNCHANGED <<now, heap, objs, secrets, mu, drawn, ret, issued, fate, resp, env>>

\* viewSecretHandler: the page templates/view-secret.html is written with
\* the base URL and the request URL; the status is the default, 200.
ViewRequest(p, id, r) ==
    /\ pc[p] = "idle"
    /\ req' = [req EXCEPT ![p] = [kind |-> "view", id |-> id, r |-> r]]
    /\ resp' = [resp EXCEPT ![p] =
                   [status |-> 200,
                    body |-> [BaseURL |-> <<Scheme(r), "://", r.host>>,
                              RequestURL |-> <<Scheme(r), "://", r.host, "/s/", id>>]]]
    /\ pc' = [pc EXCEPT ![p] = "respond"]
    /\ UNCHANGED <<now, heap, objs, secrets, mu, drawn, loc, ret, issued, fate, env>>

\* The server with its pages: secrets are created with a lifetime of one
\* minute, read, verified with any of the codes, and their pages viewed.
VNext ==
    \/ Elapse(MaxClock)
    \/ \E p \in Procs : CreateRequest(p, Body(<<104>>, 1))
    \/ \E p \in Procs, id \in DOMAIN fate \cup {NoSuchID} : GetRequest(p, id)
    \/ \E p \in Procs, id \in DOMAIN fate \cup {NoSuchID}, body \in VerifyCodes : VerifyRequest(p, id, body)
    \/ \E p \in Procs, id \in DOMAIN fate \cup {NoSuchID}, r \in ViewRequests : ViewRequest(p, id, r)
    \/ \E p \in Procs : Done(p)
    \/ \E p \in Procs : Lock(p)
    \/ \E p \in Procs : Unlock(p)
    \/ \E p \in Procs : StoreCheck(p)
    \/ \E p \in Procs : StoreInsert(p)
    \/ \E p \in Procs : GetLookup(p)
    \/ \E p \in Procs : GetExpired(p)
    \/ \E p \in Procs : GetCopy(p)
    \/ \E p \in Procs : GetWipe(p)
    \/ \E p \in Procs : GetDelete(p)

VSpec == Init /\ [][VNext]_vars

\* ---------------------------------------------------------------- decrypt
\* Arguments of decrypt. A key of 32 bytes and an IV; Sealed(plain) is what a
\* sender makes of blocks it has padded itself, rightly or wrongly.
Key32 == [i \in 1..32 |-> (i * 37 + 11) % 256]
IV == [i \in 1..BlockSize |-> (i * 29 + 5) % 256]
Sealed(plain) == StdEncodeToString(IV \o CBCEncrypt(Key32, IV, plain))

\* A block that ends in the bytes tail, filled up in front with the byte 97.
Block(tail) == [i \in 1..(BlockSize - Len(tail)) |-> 97] \o tail

\* The blocks senders seal: correctly padded ones (one pad byte, fourteen, a
\* whole pad block after a full block) and ones whose padding is wrong (count
\* 0, 17, 255; a count of 3 or 16 over bytes that differ from it).
Plains ==
    { Block(<<1>>),
      Block(<<104, 105>> \o [i \in 1..14 |-> 14]),
      [i \in 1..BlockSize |-> 97] \o [i \in 1..BlockSize |-> 16],
      [i \in 1..BlockSize |-> 16],
      Block(<<0>>),
      Block(<<17>>),
      Block(<<255>>),
      Block(<<2, 3, 3>>),
      Block(<<3, 2, 3>>),
      Block(<<3, 3, 2, 3>>),
      [i \in 1..BlockSize |-> 97] \o Block(<<0, 0>>),
      [i \in 1..BlockSize |-> 97] \o Block(<<4, 4, 4, 4>>),
      [i \in 1..BlockSize |-> IF i = 1 THEN 15 ELSE 16],
      Block(<<2, 1>>) }

\* A second key, of 16 bytes, and a second IV.
Key16 == [i \in 1..16 |-> i]
IV2 == [i \in 1..BlockSize |-> (i * 101 + 7) % 256]

\* A text of n bytes.
Text(n) == [i \in 1..n |-> 96 + i]

\* The plaintexts the tests encrypt: of 0, 1, 5, 15, 16, 17 and 32 bytes,
\* and three that end in bytes a padding could consist of.
Plaintexts ==
    { Text(n) : n \in {0, 1, 5, 15, 16, 17, 32} }
    \cup { <<1>>, <<104, 2, 2>>, [i \in 1..BlockSize |-> 16] }

\* What simulateEncryption makes of them: the plaintext, the key, the IV it
\* drew, and the envelope.
Envelopes ==
    { [plaintext |-> t, keyStr |-> StdEncodeToString(k),
       data |-> simulateEncryption(t, StdEncodeToString(k), iv).out] :
          t \in Plaintexts, k \in {Key32, Key16}, iv \in {IV, IV2} }

\* The pairs (encryptedData, keyStr) decrypt is called with: the sealed
\* blocks under their key and under another, the envelopes, and data or keys
\* that are malformed (not base64, too short, not whole blocks, an IV alone,
\* a key of 5 bytes), alone or several at once.
DecryptCalls ==
    { <<Sealed(plain), StdEncodeToString(Key32)>> : plain \in Plains }
    \cup { <<e.data, e.keyStr>> : e \in Envelopes }
    \cup { <<Sealed(Block(<<1>>)), StdEncodeToString([i \in 1..16 |-> i])>>,
           <<Sealed(Block(<<1>>)), StdEncodeToString(<<1, 2, 3, 4, 5>>)>>,
           <<Sealed(Block(<<1>>)), <<33, 33, 33, 33>>>>,
           << <<33, 33, 33, 33>>, StdEncodeToString(Key32)>>,
           << StdEncodeToString(<<1, 2, 3>>), StdEncodeToString(Key32)>>,
           << StdEncodeToString(IV \o <<1, 2, 3>>), StdEncodeToString(Key32)>>,
           << StdEncodeToString(IV), StdEncodeToString(Key32)>>,
           << <<33, 33, 33, 33>>, <<33, 33, 33, 33>> >>,
           << <<33, 33, 33, 33>>, StdEncodeToString(<<1, 2, 3, 4, 5>>)>>,
           << StdEncodeToString(<<1, 2, 3>>), <<33, 33, 33, 33>> >>,
           << StdEncodeToString(<<1, 2, 3>>), StdEncodeToString(<<1, 2, 3, 4, 5>>)>>,
           << StdEncodeToString(IV \o <<1, 2, 3>>), StdEncodeToString(<<1, 2, 3, 4, 5>>)>>,
           << StdEncodeToString(IV), StdEncodeToString(<<1, 2, 3, 4, 5>>)>>,
           << << >>, StdEncodeToString(Key32)>>,
           << StdEncodeToString(IV), << >> >> }

\* The bodies POST /api/secrets of the server that decrypts is sent: one that
\* is not JSON, and (content, encryption_key) with an empty or over-long
\* content, an empty key, data or keys decrypt rejects, and envelopes it
\* opens.
Requests ==
    { [json |-> FALSE, content |-> << >>, encryption_key |-> << >>] }
    \cup { [json |-> TRUE, content |-> c[1], encryption_key |-> c[2]] :
             c \in { << << >>, StdEncodeToString(Key32)>>,
                     <<simulateEncryption(Text(80), StdEncodeToString(Key32), IV).out,
                       StdEncodeToString(Key32)>>,
                     <<Sealed(Block(<<1>>)), << >> >>,
                     <<Sealed(Block(<<1>>)), <<33, 33, 33, 33>> >>,
                     << <<33, 33, 33, 33>>, StdEncodeToString(Key32)>>,
                     <<Sealed(Block(<<1>>)), StdEncodeToString(<<1, 2, 3, 4, 5>>)>>,
                     <<StdEncodeToString(<<1, 2, 3>>), StdEncodeToString(Key32)>>,
                     <<StdEncodeToString(IV \o <<1, 2, 3>>), StdEncodeToString(Key32)>>,
                     <<StdEncodeToString(IV), StdEncodeToString(Key32)>>,
                     <<Sealed(Block(<<0>>)), StdEncodeToString(Key32)>>,
                     <<Sealed(Block(<<2, 3, 3>>)), StdEncodeToString(Key32)>>,
                     <<Sealed(Block(<<1>>)), StdEncodeToString(Key16)>>,
                     <<simulateEncryption(Text(5), StdEncodeToString(Key32), IV).out,
                       StdEncodeToString(Key32)>>,
                     <<simulateEncryption(Text(0), StdEncodeToString(Key16), IV2).out,
                       StdEncodeToString(Key16)>>,
                     <<simulateEncryption(Text(17), StdEncodeToString(Key32), IV2).out,
                       StdEncodeToString(Key32)>> } }

\* The elements of a finite set, one after the other.
RECURSIVE Listed(_)
Listed(S) ==
    IF S = {} THEN << >>
    ELSE LET x == CHOOSE y \in S : TRUE IN <<x>> \o Listed(S \ {x})

\* The calls of a run, in the order they are made: the tests call decrypt,
\* then the requests reach createSecretHandler.
CallList ==
    [i \in 1..Cardinality(DecryptCalls) |->
        [caller |-> "test", json |-> TRUE,
         encryptedData |-> Listed(DecryptCalls)[i][1],
         keyStr |-> Listed(DecryptCalls)[i][2]]]
    \o [i \in 1..Cardinality(Requests) |->
        [caller |-> "handler", json |-> Listed(Requests)[i].json,
         encryptedData |-> Listed(Requests)[i].content,
         keyStr |-> Listed(Requests)[i].encryption_key]]

\* The n-th call begins; the run began with call first and has seen decrypt
\* return the errors seen (each with the statement that returned it).
StartCall(n, first, seen) ==
    [pc |-> IF CallList[n].caller = "handler" THEN "handler" ELSE "decode_key",
     caller |-> CallList[n].caller, json |-> CallList[n].json,
     encryptedData |-> CallList[n].encryptedData, keyStr |-> CallList[n].keyStr,
     key |-> << >>, iv |-> << >>, ciphertext |-> << >>,
     decrypted |-> FALSE, out |-> << >>, err |-> "", at |-> "",
     resp |-> NoResponse, n |-> n, first |-> first, seen |-> seen]

\* decrypt(encryptedData, keyStr) is called, or a request arrives.
DInit ==
    /\ now = 0
    /\ heap = << >>
    /\ objs = << >>
    /\ secrets = << >>
    /\ mu = Unlocked
    /\ drawn = 0
    /\ pc = [p \in Procs |-> "idle"]
    /\ loc = [p \in Procs |-> NoLocals]
    /\ ret = [p \in Procs |-> NoResult]
    /\ issued = << >>
    /\ fate = << >>
    /\ req = [p \in Procs |-> NoRequest]
    /\ resp = [p \in Procs |-> NoResponse]
    /\ \E n \in 1..Len(CallList) : env = StartCall(n, n, {})

\* return "", err
Fail(err) == [env EXCEPT !.pc = "return", !.out = << >>, !.err = err, !.at = env.pc]

store == <<now, heap, objs, secrets, mu, drawn, pc, loc, ret, issued, fate, req, resp>>

\* The response that reveals which check of decrypt failed (faulty variant).
FailedToDecryptLeaky(err) == Error(err, 400)

\* http.Error(w, "Failed to decrypt content", http.StatusBadRequest)
FailedToDecrypt(err) == Error("Failed to decrypt content", 400)

\* createSecretHandler of the server that decrypts, up to its call of
\* decrypt(req.Content, req.EncryptionKey).
createSecretHandler ==
    /\ env.pc = "handler"
    /\ env' = IF ~env.json
              THEN [env EXCEPT !.pc = "responded", !.resp = Error("Invalid JSON", 400)]
              ELSE IF env.encryptedData = << >>
              THEN [env EXCEPT !.pc = "responded",
                               !.resp = Error("Content cannot be empty", 400)]
              ELSE IF Len(env.encryptedData) > MaxSecretLengthV1
              THEN [env EXCEPT !.pc = "responded",
                               !.resp = Error("Content exceeds maximum length of %d characters", 400)]
              ELSE IF env.keyStr = << >>
              THEN [env EXCEPT !.pc = "responded",
                               !.resp = Error("Encryption key cannot be empty", 400)]
              ELSE [env EXCEPT !.pc = "decode_key"]
    /\ UNCHANGED store

\* key, err := base64.StdEncoding.DecodeString(keyStr)
DecodeKey ==
    /\ env.pc = "decode_key"
    /\ LET key == DecodeString(env.keyStr)
       IN  env' = IF key.ok THEN [env EXCEPT !.pc = "decode_data", !.key = key.bytes]
                  ELSE Fail("illegal base64 data")
    /\ UNCHANGED store

\* ciphertext, err := base64.StdEncoding.DecodeString(encryptedData)
DecodeData ==
    /\ env.pc = "decode_data"
    /\ LET ciphertext == DecodeString(env.encryptedData)
       IN  env' = IF ciphertext.ok
                  THEN [env EXCEPT !.pc = "new_cipher", !.ciphertext = ciphertext.bytes]
                  ELSE Fail("illegal base64 data")
    /\ UNCHANGED store

\* block, err := aes.NewCipher(key)
NewCipher ==
    /\ env.pc = "new_cipher"
    /\ env' = IF KeySizeOK(env.key) THEN [env EXCEPT !.pc = "check_length"]
              ELSE Fail("crypto/aes: invalid key size")
    /\ UNCHANGED store

\* The length checks, and the split into IV and ciphertext.
CheckLength ==
    /\ env.pc = "check_length"
    /\ env' = IF LengthError(env.ciphertext) \in
                     {"ciphertext too short", "ciphertext is not a multiple of the block size"}
              THEN Fail(LengthError(env.ciphertext))
              ELSE IF LengthError(env.ciphertext) # ""
              THEN [Fail(LengthError(env.ciphertext)) EXCEPT
                        !.iv = SubSeq(env.ciphertext, 1, BlockSize),
                        !.ciphertext = << >>]
              ELSE [env EXCEPT !.pc = "crypt_blocks",
                               !.iv = SubSeq(env.ciphertext, 1, BlockSize),
                               !.ciphertext = SubSeq(env.ciphertext, BlockSize + 1,
                                                     Len(env.ciphertext))]
    /\ UNCHANGED store

\* mode := cipher.NewCBCDecrypter(block, iv); mode.CryptBlocks(ciphertext, ciphertext)
CryptBlocks ==
    /\ env.pc = "crypt_blocks"
    /\ env' = [env EXCEPT !.pc = "unpad", !.decrypted = TRUE,
                          !.ciphertext = CBCDecrypt(env.key, env.iv, env.ciphertext)]
    /\ UNCHANGED store

\* The padding is validated and removed:
\* return string(ciphertext[:len(ciphertext)-padding]), nil
Unpad ==
    /\ env.pc = "unpad"
    /\ env' = IF PaddingError(env.ciphertext) # "" THEN Fail(PaddingError(env.ciphertext))
              ELSE [env EXCEPT !.pc = "return", !.err = "",
                               !.out = SubSeq(env.ciphertext, 1,
                                              Len(env.ciphertext)
                                                  - env.ciphertext[Len(env.ciphertext)])]
    /\ UNCHANGED store

\* hex.EncodeToString
RECURSIVE HexEncodeToString(_)
HexEncodeToString(bytes) ==
    IF bytes = << >> THEN << >>
    ELSE << HexDigit(bytes[1] \div 16), HexDigit(bytes[1] % 16) >>
             \o HexEncodeToString(SubSeq(bytes, 2, Len(bytes)))

\* generateID of the server that decrypts: 16 bytes of crypto/rand in
\* hexadecimal, k counting the calls of rand.Read.
generateIDHex(k) == HexEncodeToString([i \in 1..16 |-> (k * 41 + i * 17) % 256])

\* createSecretHandler after decrypt has returned: the error response, or
\* id := store.Store(decryptedContent) and the response with the id. Store
\* locks, draws the id, puts &Secret{ID, Content, CreatedAt} into the map and
\* unlocks; nothing else runs in between.
createSecretHandlerReturn ==
    /\ env.pc = "return"
    /\ env.caller = "handler"
    /\ IF env.err # ""
       THEN /\ env' = [env EXCEPT !.pc = "responded", !.resp = FailedToDecrypt(env.err)]
            /\ UNCHANGED <<heap, objs, secrets, drawn>>
       ELSE IF Len(env.out) > MaxSecretLengthV1
       THEN /\ env' = [env EXCEPT !.pc = "responded",
                          !.resp = Error("Decrypted content exceeds maximum length of %d characters", 400)]
            /\ UNCHANGED <<heap, objs, secrets, drawn>>
       ELSE LET id == generateIDHex(drawn + 1)
                a == drawn + 1
                secret == [ID |-> id, Content |-> [ptr |-> a, len |-> Len(env.out)],
                           CreatedAt |-> now]
            IN  /\ mu = Unlocked
                /\ objs' = (a :> secret) @@ objs
                /\ heap' = (a :> env.out) @@ heap
                /\ secrets' = (id :> a) @@ secrets
                /\ drawn' = drawn + 1
                /\ env' = [env EXCEPT !.pc = "responded",
                                      !.resp = [status |-> 200, body |-> [id |-> id]]]
    /\ UNCHANGED <<now, mu, pc, loc, ret, issued, fate, req, resp>>

\* The errors decrypt has returned in the run so far.
Returned ==
    env.seen \cup (IF env.err # "" THEN { <<env.at, env.err>> } ELSE {})

\* The call is over.
CallOver == env.pc = (IF env.caller = "handler" THEN "responded" ELSE "return")

\* The next call of the run begins.
NextCall ==
    /\ CallOver
    /\ env.n < Len(CallList)
    /\ env' = StartCall(env.n + 1, env.first, Returned)
    /\ UNCHANGED store

DNext ==
    \/ createSecretHandler
    \/ DecodeKey
    \/ DecodeData
    \/ NewCipher
    \/ CheckLength
    \/ CryptBlocks
    \/ Unpad
    \/ createSecretHandlerReturn
    \/ NextCall

DSpec == DInit /\ [][DNext]_vars

\* ------------------------------------------------- the cleanup goroutine
\* main starts one goroutine that calls store.CleanupExpired() each time its
\* ticker fires (for range ticker.C), for as long as the process runs; the
\* other goroutines call the store as before.
Cleaner == 1
Clients == Procs \ {Cleaner}

LNext ==
    \/ Tick
    \/ CleanupCall(Cleaner)
    \/ \E p \in Clients, c \in Contents, l \in Lifetimes : StoreCall(p, c, l)
    \/ \E p \in Clients, id \in DOMAIN fate \cup {NoSuchID} : GetCall(p, id)
    \/ \E p \in Clients : CountCall(p)
    \/ \E p \in Procs : Lock(p)
    \/ \E p \in Procs : Unlock(p)
    \/ \E p \in Clients : StoreCheck(p)
    \/ \E p \in Clients : StoreInsert(p)
    \/ \E p \in Clients : GetLookup(p)
    \/ \E p \in Clients : GetExpired(p)
    \/ \E p \in Clients : GetCopy(p)
    \/ \E p \in Clients : GetWipe(p)
    \/ \E p \in Clients : GetDelete(p)
    \/ \E p \in Clients : RLock(p)
    \/ \E p \in Clients : CountLen(p)
    \/ \E p \in Clients : RUnlock(p)
    \/ CleanupNow(Cleaner)
    \/ \E id \in AllIDs : CleanupVisit(Cleaner, id)
    \/ CleanupReturn(Cleaner)

\* A step of goroutine p inside a call of the store.
Running(p) ==
    \/ Lock(p) \/ Unlock(p) \/ RLock(p) \/ RUnlock(p)
    \/ StoreCheck(p) \/ StoreInsert(p) \/ CountLen(p)
    \/ GetLookup(p) \/ GetExpired(p) \/ GetCopy(p) \/ GetWipe(p) \/ GetDelete(p)
    \/ CleanupNow(p) \/ CleanupReturn(p)
    \/ \E id \in AllIDs : CleanupVisit(p, id)

\* The ticker keeps firing; the Go scheduler runs every goroutine that can
\* run; and sync.RWMutex hands the lock to a goroutine that keeps waiting for
\* it (a waiter that has been starved is served next). Nothing obliges a
\* client to make a call.
LiveSpec ==
    /\ Init
    /\ [][LNext]_vars
    /\ WF_vars(CleanupCall(Cleaner))
    /\ \A p \in Procs : WF_vars(Running(p))
    /\ SF_vars(Lock(Cleaner))

Next ==
    \/ Tick
    \/ \E p \in Procs : Lock(p)
    \/ \E p \in Procs : Unlock(p)
    \/ \E p \in Procs, c \in Contents, l \in Lifetimes : StoreCall(p, c, l)
    \/ \E p \in Procs : StoreCheck(p)
    \/ \E p \in Procs : StoreInsert(p)
    \/ \E p \in Procs, id \in DOMAIN fate \cup {NoSuchID} : GetCall(p, id)
    \/ \E p \in Procs : GetLookup(p)
    \/ \E p \in Procs : GetExpired(p)
    \/ \E p \in Procs : GetCopy(p)
    \/ \E p \in Procs : GetWipe(p)
    \/ \E p \in Procs : GetDelete(p)
    \/ \E p \in Procs : CountCall(p)
    \/ \E p \in Procs : RLock(p)
    \/ \E p \in Procs : CountLen(p)
    \/ \E p \in Procs : RUnlock(p)
    \/ \E p \in Procs : CleanupCall(p)
    \/ \E p \in Procs : CleanupNow(p)
    \/ \E p \in Procs, id \in AllIDs : CleanupVisit(p, id)
    \/ \E p \in Procs : CleanupReturn(p)

Spec == Init /\ [][Next]_vars

\* =============================================================== properties
\* Goroutine p has executed the return statement of its call (the deferred
\* Unlock is still to run): ret[p] is what the caller receives.
Returning(p) == pc[p] = "unlock"

\* Goroutine p is returning from Get(id) for an id some Store has returned.
ReturningGet(p) == Returning(p) /\ ret[p].kind \in {"GetOK", "NotFound"} /\ loc[p].id \in DOMAIN fate

\* The ids that have left the store.
Gone == {id \in DOMAIN fate : fate[id] # "live"}

\* C1. At-most-once delivery: of all the concurrent Get(id) calls on an id
\* that Store returned, one returns (secret, true); a Get that returns
\* (nil, false) does so because another Get has taken the secret or because
\* the secret's expires_at has passed; no id is delivered twice.
C1_AtMostOnce ==
    /\ \A id \in DOMAIN fate : fate[id] # "twice"
    /\ \A id \in DOMAIN issued :
           fate[id] \in {"expired", "swept"} => now > issued[id].ExpiresAt
    /\ \A p \in Procs : ReturningGet(p) =>
           /\ ret[p].kind = "GetOK" =>
                  /\ fate[loc[p].id] = "read"
                  /\ \A q \in Procs \ {p} : ~(ret[q].kind = "GetOK" /\ loc[q].id = loc[p].id)
           /\ ret[p].kind = "NotFound" => fate[loc[p].id] \in {"read", "expired", "swept"}

\* Two Gets race on one unexpired id: one returns the secret while the other
\* waits for the mutex.
C1_Witness ==
    \E p, q \in Procs :
        /\ p # q
        /\ ReturningGet(p) /\ ret[p].kind = "GetOK"
        /\ pc[q] = "Get_lock" /\ loc[q].id = loc[p].id
        /\ now <= ret[p].secret.ExpiresAt

\* C2. Capacity: the map never holds more than MaxUnreadSecrets entries.
C2_Capacity == Cardinality(DOMAIN secrets) <= MaxUnreadSecrets

\* Two Stores race at MaxUnreadSecrets - 1 entries: one has inserted and
\* filled the store while the other waits for the mutex.
C2_Witness ==
    \E p, q \in Procs :
        /\ p # q
        /\ Returning(p) /\ ret[p].kind = "StoreOK"
        /\ pc[q] = "Store_lock"
        /\ Cardinality(DOMAIN secrets) = MaxUnreadSecrets

\* C3. A Store that finds MaxUnreadSecrets entries returns the capacity error
\* with an empty id and inserts nothing, the count staying at
\* MaxUnreadSecrets; a Store fails only then. The map holds exactly the
\* stored secrets that have not left, so after k removals k more Stores
\* succeed and the next fails.
C3_CapacityError ==
    /\ \A p \in Procs : pc[p] = "Store_insert" => Cardinality(DOMAIN secrets) < MaxUnreadSecrets
    /\ \A p \in Procs : Returning(p) /\ ret[p].kind = "StoreErr" =>
           /\ ret[p].id = << >>
           /\ ret[p].max = MaxUnreadSecrets
           /\ Cardinality(DOMAIN secrets) = MaxUnreadSecrets
           /\ drawn - Cardinality(Gone) = MaxUnreadSecrets
           /\ DOMAIN secrets = DOMAIN fate \ Gone
    /\ \A p \in Procs : Returning(p) /\ ret[p].kind = "StoreOK" =>
           /\ ret[p].id \in DOMAIN secrets
           /\ Cardinality(DOMAIN secrets) = drawn - Cardinality(Gone)
           /\ drawn - Cardinality(Gone) <= MaxUnreadSecrets

\* The store was filled, one secret was read, one more Store succeeded, and
\* the Store after that fails again.
C3_Witness ==
    \E p \in Procs :
        /\ Returning(p) /\ ret[p].kind = "StoreErr"
        /\ drawn = MaxUnreadSecrets + 1
        /\ Cardinality({id \in DOMAIN fate : fate[id] = "read"}) = 1

\* C4. An id that has been read, or that was removed as expired, never
\* enters the map again and keeps its fate; a Get commits to returning a
\* secret only for an id that has not left the store and whose expires_at
\* has not passed; the clock does not run backwards.
C4_PermanentlyInvalid ==
    [][ /\ now' >= now
        /\ \A id \in DOMAIN fate :
               fate[id] \in {"read", "expired", "swept"} =>
                   /\ id \notin DOMAIN secrets'
                   /\ id \in DOMAIN fate' /\ fate'[id] = fate[id]
        /\ \A p \in Procs :
               (pc[p] = "Get_check" /\ pc'[p] = "Get_wipe") =>
                   /\ loc[p].id \in DOMAIN issued
                   /\ fate[loc[p].id] = "live"
                   /\ ~(now > issued[loc[p].id].ExpiresAt)
        /\ \A p \in Procs :
               (pc'[p] = "unlock" /\ ret'[p].kind = "GetOK") =>
                   /\ loc'[p].id \in DOMAIN fate'
                   /\ fate'[loc'[p].id] = "read"
      ]_vars

\* A Get on an id that was read earlier returns (nil, false), other secrets
\* having been stored in the meantime.
C4_Witness ==
    \E p \in Procs :
        /\ ReturningGet(p) /\ ret[p].kind = "NotFound"
        /\ fate[loc[p].id] = "read"
        /\ drawn >= 2 /\ DOMAIN secrets # {}

\* Goroutine p is returning from a Get that found its id in the map.
ReturningGetPresent(p) ==
    /\ ReturningGet(p)
    /\ loc[p].secret # 0
    /\ loc[p].id \in DOMAIN issued

\* C5 as stated: a Get that finds the entry at a time now >= expires_at
\* returns (nil, false) and removes the entry.
C5_ExpiredAtOrAfter ==
    \A p \in Procs : ReturningGetPresent(p) /\ loc[p].now >= issued[loc[p].id].ExpiresAt =>
        /\ ret[p].kind = "NotFound"
        /\ loc[p].id \notin DOMAIN secrets

\* C5, amended. A Get that finds the entry at a time now > expires_at returns
\* (nil, false), never the payload, and removes the entry, the count going
\* down by one; at now <= expires_at, the instant now = expires_at included,
\* it returns the secret.
C5_ExpiredStrictlyAfter ==
    \A p \in Procs : ReturningGetPresent(p) =>
        /\ loc[p].id \notin DOMAIN secrets
        /\ Cardinality(DOMAIN secrets) = Cardinality(loc[p].before) - 1
        /\ loc[p].now > issued[loc[p].id].ExpiresAt =>
               /\ ret[p].kind = "NotFound"
               /\ loc[p].copy = << >>
               /\ fate[loc[p].id] = "expired"
        /\ loc[p].now <= issued[loc[p].id].ExpiresAt =>
               /\ ret[p].kind = "GetOK"
               /\ fate[loc[p].id] = "read"

\* A Get finds its entry expired and returns (nil, false), another entry
\* staying in the map.
C5_Witness ==
    \E p \in Procs :
        /\ ReturningGetPresent(p)
        /\ loc[p].now > issued[loc[p].id].ExpiresAt
        /\ ret[p].kind = "NotFound"
        /\ Cardinality(DOMAIN secrets) = 1

\* Goroutine p is returning from CleanupExpired.
ReturningCleanup(p) == Returning(p) /\ ret[p].kind = "Cleanup"

\* C6. CleanupExpired removes the entries whose expires_at lies before the
\* time the sweep read, and no other; it returns the number removed, and
\* the count afterwards is the count before minus that number.
C6_CleanupExpired ==
    \A p \in Procs : ReturningCleanup(p) =>
        /\ loc[p].before \subseteq DOMAIN issued
        /\ LET passed == {id \in loc[p].before : loc[p].now > issued[id].ExpiresAt}
           IN  /\ DOMAIN secrets = loc[p].before \ passed
               /\ ret[p].count = Cardinality(passed)
               /\ Cardinality(DOMAIN secrets) = Cardinality(loc[p].before) - ret[p].count

\* A sweep over two entries removed the expired one and kept the other.
C6_Witness ==
    \E p \in Procs :
        /\ ReturningCleanup(p)
        /\ ret[p].count = 1
        /\ Cardinality(DOMAIN secrets) = 1

\* C7. Get and CleanupExpired on one expired id: the entry is removed once;
\* a sweep counts exactly the entries it removed itself; a Get on an id a
\* sweep removed sees no entry; neither returns the secret.
C7_GetSweepRace ==
    /\ \A id \in DOMAIN fate : fate[id] # "twice"
    /\ \A p \in Procs : ReturningCleanup(p) =>
           /\ \A id \in loc[p].before : id \in DOMAIN fate /\ fate[id] \in {"live", "swept"}
           /\ ret[p].count = Cardinality({id \in loc[p].before : fate[id] = "swept"})
    /\ \A p \in Procs : ReturningGet(p) /\ fate[loc[p].id] = "swept" =>
           ret[p].kind = "NotFound" /\ loc[p].secret = 0
    /\ \A p \in Procs : ReturningGet(p) /\ fate[loc[p].id] = "expired" =>
           ret[p].kind = "NotFound"

\* A sweep has removed and counted an expired entry while a Get on the same
\* id waits for the mutex.
C7_Witness ==
    \E p, q \in Procs :
        /\ p # q
        /\ ReturningCleanup(p) /\ ret[p].count >= 1
        /\ pc[q] = "Get_lock"
        /\ loc[q].id \in loc[p].before
        /\ fate[loc[q].id] = "swept"

\* C8 as stated: when an entry has left the store, the bytes of its payload
\* are all zero.
C8_SecureErasure ==
    \A id \in DOMAIN issued : fate[id] # "live" =>
        /\ issued[id].ptr \in DOMAIN heap
        /\ \A i \in 1..Len(heap[issued[id].ptr]) : heap[issued[id].ptr][i] = 0

\* C9. A successful Get returns a copy: its ID, Content and CreatedAt (and
\* ExpiresAt) are the values Store recorded, also after the stored struct has
\* been wiped, which the wipe leaves with empty ID and Content.
C9_ReturnsCopy ==
    /\ \A p \in Procs : pc[p] = "Get_delete" =>
           /\ objs[loc[p].secret].Content = EmptyString
           /\ objs[loc[p].secret].ID = << >>
    /\ \A p \in Procs : pc[p] \in {"Get_delete", "unlock"} /\ loc[p].copy # << >> =>
           /\ loc[p].id \in DOMAIN issued
           /\ loc[p].copy.ID = loc[p].id
           /\ loc[p].copy.ID = issued[loc[p].id].ID
           /\ Bytes(heap, loc[p].copy.Content) = issued[loc[p].id].Content
           /\ loc[p].copy.CreatedAt = issued[loc[p].id].CreatedAt
           /\ loc[p].copy.ExpiresAt = issued[loc[p].id].ExpiresAt
    /\ \A p \in Procs : Returning(p) /\ ret[p].kind = "GetOK" =>
           /\ ret[p].secret = loc[p].copy
           /\ loc[p].copy # << >>
           /\ objs[loc[p].secret].Content = EmptyString

\* A Get returns a two-byte payload after the stored struct was wiped.
C9_Witness ==
    \E p \in Procs :
        /\ Returning(p) /\ ret[p].kind = "GetOK"
        /\ Bytes(heap, ret[p].secret.Content) = <<104, 105>>
        /\ objs[loc[p].secret].Content = EmptyString

\* C10. Concurrent Stores receive distinct ids (as many ids are in use as
\* Stores have succeeded, none issued twice), every id that has not left is
\* in the map under its own id (a Get about to delete it has wiped the
\* struct), and none is retrieved twice.
C10_DistinctIDs ==
    /\ Cardinality(DOMAIN fate) = drawn
    /\ \A id \in DOMAIN fate : fate[id] \notin {"reissued", "twice"}
    /\ \A id \in DOMAIN fate : fate[id] = "live" <=> id \in DOMAIN secrets
    /\ \A id \in DOMAIN secrets :
           \/ objs[secrets[id]].ID = id
           \/ \E p \in Procs : pc[p] = "Get_delete" /\ loc[p].id = id
    /\ \A p \in Procs : Returning(p) /\ ret[p].kind = "StoreOK" => Len(ret[p].id) = 16

\* Two secrets were stored into the empty store; the Get on one has returned
\* it while the Get on the other waits for the mutex.
C10_Witness ==
    \E p, q \in Procs :
        /\ p # q
        /\ drawn = 2
        /\ ReturningGet(p) /\ ret[p].kind = "GetOK"
        /\ pc[q] = "Get_lock" /\ loc[q].id # loc[p].id
        /\ loc[q].id \in DOMAIN fate /\ fate[loc[q].id] = "live"

\* ------------------------------------------------- properties of the handlers
\* Goroutine p has written the response of the request it serves.
Answered(p) == pc[p] = "respond"

\* Goroutine p serves a create request and its call of store.Store is
\* returning.
ReturningCreate(p) == Returning(p) /\ req[p].kind = "create"

\* Goroutine p serves a read request (GET, or verify with a well-formed code)
\* and its call of store.Get is returning.
ReturningRead(p) == Returning(p) /\ req[p].kind \in {"get", "verify"}

\* Goroutine p has answered a read request that went to the store.
AnsweredRead(p) == Answered(p) /\ req[p].kind \in {"get", "verify"} /\ resp[p].status # 400

\* C11 as stated: every secret in the map has expires_at > created_at.
C11_ExpiresAfterCreated ==
    \A id \in DOMAIN secrets :
        objs[secrets[id]].ExpiresAt > objs[secrets[id]].CreatedAt

\* C12. A create request whose lifetime is absent, zero or negative stores
\* its secret with expires_at = created_at + 24 hours.
C12_DefaultLifetime ==
    \A p \in Procs : ReturningCreate(p) /\ ret[p].kind = "StoreOK" /\ req[p].body.lifetime <= 0 =>
        /\ ret[p].id \in DOMAIN secrets
        /\ objs[secrets[ret[p].id]].ExpiresAt = objs[secrets[ret[p].id]].CreatedAt + 24 * 60 * Minute
        /\ objs[secrets[ret[p].id]].CreatedAt <= now

\* A request with lifetime -1 has stored its secret while a request without
\* lifetime waits for the mutex.
C12_Witness ==
    \E p, q \in Procs :
        /\ ReturningCreate(p) /\ ret[p].kind = "StoreOK" /\ req[p].body.lifetime = -1
        /\ pc[q] = "Store_lock" /\ req[q].kind = "create" /\ req[q].body.lifetime = 0

\* C13 as stated: no stored payload is longer than MaxSecretLength.
C13_WithinMaxSecretLength ==
    \A id \in DOMAIN secrets : objs[secrets[id]].Content.len <= MaxSecretLength

\* C13, amended. No payload stored through the create endpoint is longer than
\* 2 * MaxSecretLength, the length being that of the content string of the
\* request (the literal unquoted, nothing else decoded).
C13_WithinTwiceMaxSecretLength ==
    /\ \A id \in DOMAIN secrets :
           \/ objs[secrets[id]].Content.len <= 2 * MaxSecretLength
           \/ \E p \in Procs : pc[p] = "Get_delete" /\ loc[p].id = id
    /\ \A id \in DOMAIN issued : Len(issued[id].Content) <= 2 * MaxSecretLength
    /\ \A p \in Procs : ReturningCreate(p) /\ ret[p].kind = "StoreOK" =>
           /\ objs[secrets[ret[p].id]].Content.len = Len(unquote(req[p].body.content).s)
           /\ Len(unquote(req[p].body.content).s) <= 2 * MaxSecretLength

\* A payload of 2 * MaxSecretLength bytes, written as a longer literal, has
\* been stored.
C13_Witness ==
    \E p \in Procs :
        /\ ReturningCreate(p) /\ ret[p].kind = "StoreOK"
        /\ objs[secrets[ret[p].id]].Content.len = 2 * MaxSecretLength
        /\ Len(req[p].body.content) > 2 * MaxSecretLength

\* The body of a create request passes the handler's validation.
Valid(body) ==
    /\ unquote(body.content).ok
    /\ unquote(body.content).s # << >>
    /\ Len(unquote(body.content).s) <= 2 * MaxSecretLength

\* C14. A create request with invalid JSON, empty content or content longer
\* than 2 * MaxSecretLength is answered 400 in the step that receives it, and
\* neither that step nor the rest of the handler changes the store; every
\* other create request, content of exactly 2 * MaxSecretLength bytes
\* included, goes on to store.Store.
C14_ValidationBeforeStore ==
    [][ \A p \in Procs :
          /\ (req[p] = NoRequest /\ req'[p].kind = "create") =>
                IF Valid(req'[p].body)
                THEN pc'[p] = "Store_lock" /\ resp'[p] = NoResponse
                ELSE /\ pc'[p] = "respond" /\ resp'[p].status = 400
                     /\ <<heap, objs, secrets, mu, drawn>>' = <<heap, objs, secrets, mu, drawn>>
          /\ (Answered(p) /\ pc'[p] # pc[p]) =>
                /\ pc'[p] = "idle"
                /\ <<heap, objs, secrets, mu, drawn>>' = <<heap, objs, secrets, mu, drawn>>
      ]_vars

\* A request with content one byte over the limit has been answered 400 while
\* the store holds a secret of exactly the limit.
C14_Witness ==
    \E p \in Procs :
        /\ Answered(p) /\ req[p].kind = "create" /\ resp[p].status = 400
        /\ Len(unquote(req[p].body.content).s) = 2 * MaxSecretLength + 1
        /\ \E id \in DOMAIN secrets : objs[secrets[id]].Content.len = 2 * MaxSecretLength

\* C15. A create request is answered 429 exactly when its body is valid and
\* store.Store found MaxUnreadSecrets entries; the message names
\* MaxUnreadSecrets and that call stored nothing; a request that fails
\* validation is answered 400, and a stored secret 200.
C15_TooManyRequests ==
    /\ \A p \in Procs : Answered(p) /\ req[p].kind = "create" =>
           /\ resp[p].status \in {200, 400, 429}
           /\ resp[p].status = 400 <=> ~Valid(req[p].body)
           /\ resp[p].status = 429 =>
                  resp[p].body = [error |-> "maximum number of unread secrets (%d) reached",
                                  n |-> MaxUnreadSecrets]
    /\ \A p \in Procs : ReturningCreate(p) =>
           /\ Valid(req[p].body)
           /\ ret[p].kind = "StoreErr" =>
                  /\ Response(req[p], ret[p], heap).status = 429
                  /\ Cardinality(DOMAIN secrets) = MaxUnreadSecrets
                  /\ DOMAIN secrets = DOMAIN fate \ Gone
                  /\ Cardinality(DOMAIN fate) = drawn
           /\ ret[p].kind = "StoreOK" =>
                  /\ Response(req[p], ret[p], heap).status = 200
                  /\ Cardinality(DOMAIN secrets) <= MaxUnreadSecrets

\* A valid create request has been answered 429, the store being full, while
\* another with empty content has been answered 400.
C15_Witness ==
    \E p, q \in Procs :
        /\ Answered(p) /\ req[p].kind = "create" /\ resp[p].status = 429
        /\ Answered(q) /\ req[q].kind = "create" /\ resp[q].status = 400
        /\ Cardinality(DOMAIN secrets) = MaxUnreadSecrets

\* C16. A read request that went to the store and is not answered with the
\* content gets one and the same response, 404 "Secret not found", whether
\* the id was never issued, was read before, or had expired, and whether it
\* came by GET or by verify.
C16_NotFoundIndistinguishable ==
    /\ \A p \in Procs : AnsweredRead(p) /\ resp[p].status # 200 =>
           resp[p] = [status |-> 404, body |-> [error |-> "Secret not found"]]
    /\ \A p \in Procs : ReturningRead(p) =>
           /\ loc[p].id \notin DOMAIN fate => ret[p].kind = "NotFound"
           /\ ret[p].kind = "NotFound" =>
                  Response(req[p], ret[p], heap) = [status |-> 404, body |-> [error |-> "Secret not found"]]
    /\ \A p \in Procs : AnsweredRead(p) /\ resp[p].status = 200 =>
           req[p].id \in DOMAIN fate /\ fate[req[p].id] = "read"

\* A GET for an id that was read and a verify for an id that expired have
\* been answered, with equal responses.
C16_Witness ==
    \E p, q \in Procs :
        /\ AnsweredRead(p) /\ req[p].kind = "get"
        /\ req[p].id \in DOMAIN fate /\ fate[req[p].id] = "read" /\ resp[p].status = 404
        /\ AnsweredRead(q) /\ req[q].kind = "verify"
        /\ req[q].id \in DOMAIN fate /\ fate[req[q].id] = "expired"
        /\ resp[q] = resp[p]

\* C17. For one id, GET and verify requests together receive the content at
\* most once: a 200 means this request's Get removed the entry, no entry is
\* removed twice, no two requests hold a 200 for one id, and every other
\* read request that went to the store is answered 404.
C17_SharedReadBudget ==
    /\ \A id \in DOMAIN fate : fate[id] # "twice"
    /\ \A p \in Procs : AnsweredRead(p) => resp[p].status \in {200, 404}
    /\ \A p \in Procs : AnsweredRead(p) /\ resp[p].status = 200 =>
           /\ req[p].id \in DOMAIN fate /\ fate[req[p].id] = "read"
           /\ \A q \in Procs \ {p} :
                  /\ ~(AnsweredRead(q) /\ req[q].id = req[p].id /\ resp[q].status = 200)
                  /\ ~(ReturningRead(q) /\ req[q].id = req[p].id /\ ret[q].kind = "GetOK")
    /\ \A p \in Procs : ReturningRead(p) =>
           (Response(req[p], ret[p], heap).status = 200 <=> ret[p].kind = "GetOK")

\* A GET has been answered 200 and a verify for the same id 404.
C17_Witness ==
    \E p, q \in Procs :
        /\ AnsweredRead(p) /\ req[p].kind = "get" /\ resp[p].status = 200
        /\ AnsweredRead(q) /\ req[q].kind = "verify" /\ req[q].id = req[p].id
        /\ resp[q].status = 404

\* C18. The secret is stored as the content string of the create request,
\* and the content of the 200 response to the one successful read denotes
\* that same string, by either endpoint.
C18_OpaqueRoundTrip ==
    /\ \A p \in Procs : ReturningCreate(p) /\ ret[p].kind = "StoreOK" =>
           /\ issued[ret[p].id].Content = unquote(req[p].body.content).s
           /\ Bytes(heap, objs[secrets[ret[p].id]].Content) = unquote(req[p].body.content).s
    /\ \A id \in DOMAIN secrets :
           \/ Bytes(heap, objs[secrets[id]].Content) = issued[id].Content
           \/ \E p \in Procs : pc[p] = "Get_delete" /\ loc[p].id = id
    /\ \A p \in Procs : ReturningRead(p) /\ ret[p].kind = "GetOK" =>
           unquote(Response(req[p], ret[p], heap).body.content)
               = [ok |-> TRUE, s |-> issued[loc[p].id].Content]
    /\ \A p \in Procs : AnsweredRead(p) /\ resp[p].status = 200 =>
           /\ unquote(resp[p].body.content).ok
           /\ \E body \in CreateBodies :
                  Valid(body) /\ unquote(resp[p].body.content).s = unquote(body.content).s

\* A verify request is about to be answered with the content <i, which the
\* response writes as another literal than the create request did.
C18_Witness ==
    \E p \in Procs :
        /\ ReturningRead(p) /\ req[p].kind = "verify" /\ ret[p].kind = "GetOK"
        /\ issued[loc[p].id].Content = <<60, 105>>
        /\ Response(req[p], ret[p], heap).body.content = <<92, 117, 48, 48, 51, 99, 105>>

\* ------------------------------------------ properties of the cleanup goroutine
\* C19. Expiry without access: an entry whose expires_at has passed is
\* eventually out of the map, whether or not any caller ever names its id.
C19_ExpiryWithoutAccess ==
    \A id \in AllIDs :
        (id \in DOMAIN secrets /\ After(now, objs[secrets[id]].ExpiresAt)) ~> (id \notin DOMAIN secrets)

\* The cleanup goroutine has removed an expired secret while no client is in
\* a call, and no secret has been read.
C19_Witness ==
    /\ ReturningCleanup(Cleaner) /\ ret[Cleaner].count >= 1
    /\ \E id \in DOMAIN fate : fate[id] = "swept"
    /\ \A id \in DOMAIN fate : fate[id] \in {"live", "swept"}
    /\ \A p \in Clients : pc[p] = "idle"

\* ------------------------------------------------------ properties of decrypt
\* decrypt has returned after decrypting the blocks.
ReturnedDecrypted == env.pc = "return" /\ env.decrypted

\* The last n bytes of d.
Last(d, n) == SubSeq(d, Len(d) - n + 1, Len(d))

\* C20. Padding rejection: when the final byte p of the decrypted bytes is 0
\* or greater than 16, decrypt returns the error "invalid padding"; when
\* the last p bytes are not all p, it returns "invalid PKCS7 padding"; in
\* both cases the string it returns is empty. It returns bytes only when the
\* padding is right, and then the decrypted bytes without the padding.
C20_PaddingRejection ==
    ReturnedDecrypted =>
        LET d == env.ciphertext
            p == d[Len(d)]
        IN  /\ Len(d) >= BlockSize
            /\ (p = 0 \/ p > 16) => env.err = "invalid padding" /\ env.out = << >>
            /\ (p \in 1..16 /\ Last(d, p) # [i \in 1..p |-> p]) =>
                   env.err = "invalid PKCS7 padding" /\ env.out = << >>
            /\ (p \in 1..16 /\ Last(d, p) = [i \in 1..p |-> p]) =>
                   env.err = "" /\ env.out \o Last(d, p) = d
            /\ env.err # "" => env.out = << >>

\* decrypt has rejected blocks whose last byte is 3 and whose third-last is
\* not, the blocks being the ones the sender sealed.
C20_Witness ==
    /\ ReturnedDecrypted
    /\ env.err = "invalid PKCS7 padding"
    /\ env.ciphertext = Block(<<2, 3, 3>>)

\* C21. Envelope round trip: whatever plaintext simulateEncryption has padded
\* and encrypted (0, 1, 5, 15, 16, 17, 32 bytes, or bytes that look like
\* padding), under either key and IV, decrypt with the same key returns
\* exactly that plaintext and no error; the bytes it decrypted are the
\* plaintext and its padding, a whole block of padding when the plaintext
\* fills its blocks.
C21_EnvelopeRoundTrip ==
    \A e \in Envelopes :
        (env.pc = "return" /\ env.encryptedData = e.data /\ env.keyStr = e.keyStr) =>
            /\ env.err = ""
            /\ env.out = e.plaintext
            /\ Len(env.ciphertext) > Len(e.plaintext)
            /\ Len(env.ciphertext) <= Len(e.plaintext) + BlockSize
            /\ SubSeq(env.ciphertext, 1, Len(e.plaintext)) = e.plaintext
            /\ (Len(e.plaintext) % BlockSize = 0 =>
                    Len(env.ciphertext) = Len(e.plaintext) + BlockSize)

\* decrypt has returned the 16 bytes sealed under the 16-byte key, having
\* decrypted two blocks.
C21_Witness ==
    /\ env.pc = "return"
    /\ env.caller = "test"
    /\ env.keyStr = StdEncodeToString(Key16)
    /\ env.out = Text(16)
    /\ Len(env.ciphertext) = 2 * BlockSize
    /\ env.err = ""

\* C22. In the handler that decrypts, every failure of decrypt, whatever the
\* check that failed, is answered with 400 "Failed to decrypt content", and
\* the step that answers it leaves the store as it was; only a request whose
\* content decrypt has opened is answered with an id.
C22_DecryptFailureCollapsed ==
    [][ (env.pc = "return" /\ env.caller = "handler" /\ env'.pc = "responded") =>
            /\ env.err # "" =>
                   /\ env'.resp = Error("Failed to decrypt content", 400)
                   /\ UNCHANGED <<heap, objs, secrets, drawn>>
            /\ env'.resp.status = 200 => env.err = "" ]_vars

\* The handler has answered a request whose padding bytes are wrong, after a
\* run of requests in which decrypt failed in eight different ways.
C22_Witness ==
    /\ env.pc = "responded"
    /\ env.caller = "handler"
    /\ env.err # ""
    /\ env.resp = Error("Failed to decrypt content", 400)
    /\ CallList[env.first].caller = "handler"
    /\ Cardinality(Returned) = 8

\* C23. A successful Store adds exactly one new entry: the step that inserts
\* returns an id that was not a key of the map, the map holds one key more
\* (Count is its size), and every entry it held is still there and points
\* to the same struct with the same fields and bytes.
C23_StoreAddsOne ==
    [][ \A p \in Procs :
          (pc[p] = "Store_insert" /\ pc'[p] = "unlock") =>
              /\ ret'[p].kind = "StoreOK"
              /\ ret'[p].id \notin DOMAIN secrets
              /\ DOMAIN secrets' = DOMAIN secrets \cup {ret'[p].id}
              /\ Cardinality(DOMAIN secrets') = Cardinality(DOMAIN secrets) + 1
              /\ \A id \in DOMAIN secrets :
                     /\ secrets'[id] = secrets[id]
                     /\ objs'[secrets[id]] = objs[secrets[id]]
                     /\ Bytes(heap', objs'[secrets[id]].Content)
                            = Bytes(heap, objs[secrets[id]].Content) ]_vars

\* A Store is about to return the id of the second entry of the map.
C23_Witness ==
    \E p \in Procs :
        /\ pc[p] = "unlock"
        /\ ret[p].kind = "StoreOK"
        /\ ret[p].id \in DOMAIN secrets
        /\ Cardinality(DOMAIN secrets) = 2

\* What Store recorded under an id; a record that matches none for an id
\* the history no longer holds.
Recorded(id) ==
    IF id \in DOMAIN issued
    THEN [Content |-> issued[id].Content, CreatedAt |-> issued[id].CreatedAt,
          ExpiresAt |-> issued[id].ExpiresAt]
    ELSE [Content |-> << -1 >>, CreatedAt |-> -1, ExpiresAt |-> -1]

\* The entries a call in progress has already taken out of the store,
\* although the map still holds them: the one a Get has copied, and the
\* ones a sweep has found expired at the time it read.
Claimed ==
    { loc[p].id : p \in { q \in Procs : pc[q] \in {"Get_wipe", "Get_delete"} } }
    \cup UNION { { id \in loc[p].todo \cap DOMAIN secrets :
                       After(loc[p].now, Recorded(id).ExpiresAt) } :
                 p \in { q \in Procs : pc[q] = "Cleanup_range" } }

\* The store as its callers are to see it: id -> content, created_at,
\* expires_at, changed by each call in one step.
Abstract ==
    [id \in DOMAIN secrets \ Claimed |-> Recorded(id)]

\* The step at which the call of p takes effect.
Linearizes(p) ==
    \/ pc[p] = "Store_check" /\ pc'[p] = "unlock"
    \/ pc[p] = "Store_insert" /\ pc'[p] = "unlock"
    \/ pc[p] = "Get_lookup" /\ pc'[p] = "unlock"
    \/ pc[p] = "Get_check" /\ pc'[p] \in {"unlock", "Get_wipe"}
    \/ pc[p] = "Count_len" /\ pc'[p] = "runlock"
    \/ pc[p] = "Cleanup_now" /\ pc'[p] = "Cleanup_range"

\* Store(content, lifetime) as one step on the store a, giving b.
AtomicStore(p, a, b) ==
    IF Cardinality(DOMAIN a) >= MaxUnreadSecrets
    THEN b = a /\ ret'[p].kind = "StoreErr"
    ELSE /\ ret'[p].kind = "StoreOK"
         /\ ret'[p].id \notin DOMAIN a
         /\ b = (ret'[p].id :> [Content |-> loc[p].content, CreatedAt |-> now,
                                ExpiresAt |-> now + loc[p].lifetime]) @@ a

\* Get(id) as one step: nothing for an absent id, removal without a result
\* for an expired one, removal and a copy of the entry otherwise.
AtomicGet(p, a, b) ==
    LET id == loc[p].id
    IN  IF id \notin DOMAIN a
        THEN b = a /\ ret'[p].kind = "NotFound"
        ELSE /\ b = [i \in DOMAIN a \ {id} |-> a[i]]
             /\ IF After(now, a[id].ExpiresAt)
                THEN ret'[p].kind = "NotFound"
                ELSE /\ loc'[p].copy.ID = id
                     /\ Bytes(heap', loc'[p].copy.Content) = a[id].Content
                     /\ loc'[p].copy.CreatedAt = a[id].CreatedAt
                     /\ loc'[p].copy.ExpiresAt = a[id].ExpiresAt

\* Count() as one step.
AtomicCount(p, a, b) ==
    b = a /\ ret'[p] = [kind |-> "Count", n |-> Cardinality(DOMAIN a)]

\* CleanupExpired() as one step: the entries expired now are gone.
AtomicCleanup(p, a, b) ==
    /\ b = [i \in { j \in DOMAIN a : ~After(now, a[j].ExpiresAt) } |-> a[i]]
    /\ loc'[p].before = DOMAIN a
    /\ loc'[p].now = now

\* C24. Store, Get, Count and CleanupExpired are each atomic: every call
\* takes effect in one of its steps, at which the store its callers see
\* changes, and its result is determined, as by that operation done in one
\* piece; no other step changes that store (a sweep under way and an entry
\* copied but not yet deleted are seen by no one), and the call returns the
\* result of that step.
C24_Atomic ==
    [][ /\ (\A p \in Procs : ~Linearizes(p)) => Abstract' = Abstract
        /\ \A p \in Procs :
             /\ (Linearizes(p) /\ pc[p] \in {"Store_check", "Store_insert"}) =>
                    AtomicStore(p, Abstract, Abstract')
             /\ (Linearizes(p) /\ pc[p] \in {"Get_lookup", "Get_check"}) =>
                    AtomicGet(p, Abstract, Abstract')
             /\ (Linearizes(p) /\ pc[p] = "Count_len") =>
                    AtomicCount(p, Abstract, Abstract')
             /\ (Linearizes(p) /\ pc[p] = "Cleanup_now") =>
                    AtomicCleanup(p, Abstract, Abstract')
             /\ (pc[p] = "Get_delete" /\ pc'[p] = "unlock") =>
                    ret'[p] = [kind |-> "GetOK", secret |-> loc[p].copy]
             /\ (pc[p] = "Cleanup_range" /\ pc'[p] = "unlock") =>
                    ret'[p] = [kind |-> "Cleanup",
                               count |-> Cardinality({ id \in loc[p].before :
                                             After(loc[p].now, Recorded(id).ExpiresAt) })] ]_vars

\* A Get has copied an entry the map still holds, while another goroutine
\* waits to count and a third call's result is not yet out.
C24_Witness ==
    \E p, q \in Procs :
        /\ pc[p] = "Get_delete"
        /\ pc[q] = "Count_rlock"
        /\ loc[p].id \in DOMAIN secrets
        /\ DOMAIN Abstract # DOMAIN secrets

\* The checks of decrypt, and whether the arguments violate one. The padding
\* checks are about the bytes a valid key decrypts from well-formed data.
Violates(check, encryptedData, keyStr) ==
    LET key == DecodeString(keyStr)
        data == DecodeString(encryptedData)
        n == Len(data.bytes)
        d == IF key.ok /\ KeySizeOK(key.bytes) /\ data.ok /\ n > BlockSize /\ n % BlockSize = 0
             THEN CBCDecrypt(key.bytes, SubSeq(data.bytes, 1, BlockSize),
                             SubSeq(data.bytes, BlockSize + 1, n))
             ELSE << >>
    IN  CASE check = "key encoding" -> ~key.ok
          [] check = "data encoding" -> ~data.ok
          [] check = "too short" -> data.ok /\ n < BlockSize
          [] check = "misaligned" -> data.ok /\ n % BlockSize # 0
          [] check = "empty" -> data.ok /\ n = BlockSize
          [] check = "key size" -> key.ok /\ ~KeySizeOK(key.bytes)
          [] check = "padding count" -> d # << >> /\ (d[Len(d)] = 0 \/ d[Len(d)] > BlockSize)
          [] check = "padding bytes" ->
                 /\ d # << >>
                 /\ d[Len(d)] \in 1..BlockSize
                 /\ Last(d, d[Len(d)]) # [i \in 1..d[Len(d)] |-> d[Len(d)]]
          [] OTHER -> FALSE

\* The error a check fails with.
ErrorOf(check) ==
    CASE check \in {"key encoding", "data encoding"} -> "illegal base64 data"
      [] check = "too short" -> "ciphertext too short"
      [] check = "misaligned" -> "ciphertext is not a multiple of the block size"
      [] check = "empty" -> "no ciphertext after IV"
      [] check = "key size" -> "crypto/aes: invalid key size"
      [] check = "padding count" -> "invalid padding"
      [] check = "padding bytes" -> "invalid PKCS7 padding"
      [] OTHER -> ""

\* The first check of the sequence order that the arguments violate, "none"
\* when they violate none.
RECURSIVE FirstViolated(_, _, _)
FirstViolated(order, encryptedData, keyStr) ==
    IF order = << >> THEN "none"
    ELSE IF Violates(Head(order), encryptedData, keyStr) THEN Head(order)
    ELSE FirstViolated(Tail(order), encryptedData, keyStr)

\* The key size is checked before the lengths of the data.
KeySizeBeforeLengths ==
    << "key encoding", "data encoding", "key size", "too short", "misaligned",
       "empty", "padding count", "padding bytes" >>

\* The key size is checked after the lengths of the data.
KeySizeAfterLengths ==
    << "key encoding", "data encoding", "too short", "misaligned", "empty",
       "key size", "padding count", "padding bytes" >>

\* C25. decrypt applies its checks in the order key encoding, data encoding,
\* key size, data shorter than 16 bytes, data not a multiple of 16, nothing
\* after the IV, padding count, padding bytes: arguments that violate several
\* fail with the error of the first of these, so that data shorter than 16
\* bytes under a key of invalid size fails with the error of the key size.
C25_ChecksInOrder ==
    env.pc = "return" =>
        env.err = ErrorOf(FirstViolated(KeySizeBeforeLengths, env.encryptedData, env.keyStr))

\* C25 as stated: the key size is checked after the three length checks.
C25_KeySizeCheckedLast ==
    env.pc = "return" =>
        env.err = ErrorOf(FirstViolated(KeySizeAfterLengths, env.encryptedData, env.keyStr))

\* decrypt has rejected three bytes of data under a key of five bytes, with
\* the error of the key.
C25_Witness ==
    /\ env.pc = "return"
    /\ env.encryptedData = StdEncodeToString(<<1, 2, 3>>)
    /\ env.keyStr = StdEncodeToString(<<1, 2, 3, 4, 5>>)
    /\ env.err = "crypto/aes: invalid key size"
    /\ env.at = "new_cipher"

\* C26. Under a key of valid size, decoded data shorter than 16 bytes fails
\* with "ciphertext too short", longer data that is not a multiple of 16
\* bytes with "ciphertext is not a multiple of the block size", and data of
\* exactly 16 bytes with "no ciphertext after IV"; in each case no block has
\* been decrypted and the string returned is empty.
C26_StructuralRejection ==
    LET key == DecodeString(env.keyStr)
        data == DecodeString(env.encryptedData)
        n == Len(data.bytes)
    IN  (env.pc = "return" /\ key.ok /\ KeySizeOK(key.bytes) /\ data.ok) =>
            /\ n < BlockSize => env.err = "ciphertext too short"
            /\ (n > BlockSize /\ n % BlockSize # 0) =>
                   env.err = "ciphertext is not a multiple of the block size"
            /\ n = BlockSize => env.err = "no ciphertext after IV"
            /\ (n <= BlockSize \/ n % BlockSize # 0) =>
                   /\ ~env.decrypted
                   /\ env.out = << >>
                   /\ env.at = "check_length"

\* decrypt has rejected an IV and three bytes under the 32-byte key.
C26_Witness ==
    /\ env.pc = "return"
    /\ env.encryptedData = StdEncodeToString(IV \o <<1, 2, 3>>)
    /\ env.keyStr = StdEncodeToString(Key32)
    /\ env.err = "ciphertext is not a multiple of the block size"
    /\ ~env.decrypted

\* The error returns of decrypt: the statement, and the error.
ErrorReturns ==
    { <<"decode_key", "illegal base64 data">>,
      <<"decode_data", "illegal base64 data">>,
      <<"new_cipher", "crypto/aes: invalid key size">>,
      <<"check_length", "ciphertext too short">>,
      <<"check_length", "ciphertext is not a multiple of the block size">>,
      <<"check_length", "no ciphertext after IV">>,
      <<"unpad", "empty ciphertext after decryption">>,
      <<"unpad", "invalid padding">>,
      <<"unpad", "padding size larger than ciphertext">>,
      <<"unpad", "invalid PKCS7 padding">> }

\* The two returns that follow checks the earlier checks have settled.
Unreached ==
    { <<"unpad", "empty ciphertext after decryption">>,
      <<"unpad", "padding size larger than ciphertext">> }

\* The run began with the first call and its last call is over.
RunOver == env.first = 1 /\ env.n = Len(CallList) /\ CallOver

\* C27. Each error return of decrypt other than "empty ciphertext after
\* decryption" and "padding size larger than ciphertext" is reached by some
\* arguments: a run through all the calls has seen all eight. Those two are
\* never reached: the bytes whose padding is validated are at least one
\* whole block, so they are not empty and not shorter than a padding count
\* of 16 or less.
C27_ReachableFailureModes ==
    /\ Returned \cap Unreached = {}
    /\ Returned \subseteq ErrorReturns
    /\ env.pc = "unpad" =>
           Len(env.ciphertext) >= BlockSize /\ Len(env.ciphertext) % BlockSize = 0
    /\ RunOver => Returned = ErrorReturns \ Unreached

\* C27 as stated: a run through all the calls has seen every error return.
C27_EveryFailureModeReached == RunOver => Returned = ErrorReturns

\* A run through all the calls is over and has seen eight error returns.
C27_Witness == RunOver /\ Cardinality(Returned) = 8

\* ------------------------------------------- properties of verify and view
\* The number of characters of a string in UTF-8: the bytes that do not
\* continue a character.
Runes(s) == Cardinality({ i \in 1..Len(s) : s[i] \notin 128..191 })

\* The verification code of the verify request goroutine p serves.
Code(p) == unquote(req[p].body.verification_code)

\* Goroutine p serves a verify request.
Verifying(p) == req[p] # NoRequest /\ req[p].kind = "verify"

\* Goroutine p is inside store.Get or has its answer from the store.
WentToStore(p) ==
    \/ pc[p] \in {"Get_lock", "Get_lookup", "Get_check", "Get_wipe", "Get_delete", "unlock"}
    \/ Answered(p) /\ resp[p].status \in {200, 404}

\* Goroutine p has turned the request away.
TurnedAway(p) == Answered(p) /\ resp[p] = Error("Invalid verification code", 400)

\* C28. The verify endpoint accepts every verification code of six bytes,
\* whatever its value: the request goes to store.Get and is answered 200 or
\* 404 as the store decides. It answers 400 "Invalid verification code" to
\* every code that is empty or whose length in bytes is not 6; the length is
\* that of the UTF-8 encoding, so a code of six characters is accepted only
\* if all of them are ASCII.
C28_SixByteCodes ==
    \A p \in Procs :
        (Verifying(p) /\ Code(p).ok) =>
            /\ Len(Code(p).s) = 6 => WentToStore(p)
            /\ Len(Code(p).s) # 6 => TurnedAway(p)
            /\ (Answered(p) /\ resp[p].status = 200) =>
                   /\ req[p].id \in DOMAIN fate
                   /\ fate[req[p].id] = "read"

\* C28 as stated: the length is counted in characters.
C28_SixCharacterCodes ==
    \A p \in Procs :
        (Verifying(p) /\ Code(p).ok) =>
            /\ Runes(Code(p).s) = 6 => WentToStore(p)
            /\ Runes(Code(p).s) # 6 => TurnedAway(p)

\* One verify request has received a secret with the code "000000" and
\* another has been turned away with a code of six characters.
C28_Witness ==
    \E p, q \in Procs :
        /\ Verifying(p) /\ Answered(p) /\ resp[p].status = 200
        /\ Code(p).s = <<48, 48, 48, 48, 48, 48>>
        /\ Verifying(q) /\ TurnedAway(q)
        /\ Runes(Code(q).s) = 6

\* The body of a verify request is turned away: not JSON, or a code that is
\* empty or not six bytes long.
Rejected(body) ==
    LET code == unquote(body.verification_code)
    IN  ~code.ok \/ code.s = << >> \/ Len(code.s) # 6

\* C29. A verify request whose body is not JSON or whose code is empty or
\* not six bytes long is answered 400 in the step that receives it, and
\* neither that step nor the rest of the handler calls the store or changes
\* it: map, structs, bytes, lock and the record of which secrets have left
\* stay as they were, so the secret remains for a later verify or GET.
C29_RejectedVerifyKeepsSecret ==
    [][ \A p \in Procs :
          /\ (req[p] = NoRequest /\ req'[p] # NoRequest /\ req'[p].kind = "verify"
                  /\ Rejected(req'[p].body)) =>
                /\ pc'[p] = "respond" /\ resp'[p].status = 400
                /\ <<heap, objs, secrets, mu, drawn, fate>>' = <<heap, objs, secrets, mu, drawn, fate>>
          /\ (Verifying(p) /\ Rejected(req[p].body) /\ pc'[p] # pc[p]) =>
                /\ pc[p] = "respond" /\ pc'[p] = "idle"
                /\ <<heap, objs, secrets, mu, drawn, fate>>' = <<heap, objs, secrets, mu, drawn, fate>>
      ]_vars

\* A verify request with a code of five bytes for a secret has been answered
\* 400, and a request for the same secret is leaving store.Get with it.
C29_Witness ==
    \E p, q \in Procs :
        /\ Verifying(p) /\ Answered(p) /\ resp[p].status = 400
        /\ Code(p).s = <<49, 50, 51, 52, 53>>
        /\ req[p].id \in DOMAIN fate
        /\ req[q] # NoRequest /\ req[q].kind \in {"get", "verify"}
        /\ req[q].id = req[p].id
        /\ pc[q] = "unlock" /\ ret[q].kind = "GetOK"

\* Goroutine p serves a request for the page of a secret.
Viewing(p) == req[p] # NoRequest /\ req[p].kind = "view"

\* C30. GET /s/{id} is answered 200 for every id, that of a secret in the
\* store or not, in the step that receives the request, and neither that
\* step nor the rest of the handler calls the store or changes it, so the
\* secret can be retrieved afterwards.
C30_ViewPageKeepsSecret ==
    [][ \A p \in Procs :
          /\ (req[p] = NoRequest /\ req'[p] # NoRequest /\ req'[p].kind = "view") =>
                /\ pc'[p] = "respond" /\ resp'[p].status = 200
                /\ <<heap, objs, secrets, mu, drawn, fate>>' = <<heap, objs, secrets, mu, drawn, fate>>
          /\ (Viewing(p) /\ pc'[p] # pc[p]) =>
                /\ pc[p] = "respond" /\ pc'[p] = "idle"
                /\ <<heap, objs, secrets, mu, drawn, fate>>' = <<heap, objs, secrets, mu, drawn, fate>>
      ]_vars

\* The page of a secret has been served, and a request for that secret is
\* leaving store.Get with it.
C30_Witness ==
    \E p, q \in Procs :
        /\ Viewing(p) /\ Answered(p) /\ resp[p].status = 200
        /\ req[p].id \in DOMAIN fate
        /\ req[q] # NoRequest /\ req[q].kind \in {"get", "verify"}
        /\ req[q].id = req[p].id
        /\ pc[q] = "unlock" /\ ret[q].kind = "GetOK"

\* ------------------------------------------------- properties of lifetimes
\* C31 as stated: for every create request with a positive lifetime of n
\* minutes the stored secret's expires_at is created_at plus n minutes, and
\* so later than created_at: the product of n and a minute does not wrap.
C31_LifetimeInMinutes ==
    \A p \in Procs :
        (ReturningCreate(p) /\ ret[p].kind = "StoreOK" /\ req[p].body.lifetime > 0) =>
            /\ issued[ret[p].id].ExpiresAt
                   = issued[ret[p].id].CreatedAt + req[p].body.lifetime * Minute
            /\ issued[ret[p].id].ExpiresAt > issued[ret[p].id].CreatedAt

\* ------------------------------------------------------- the cleanup worker
\* runCleanupWorker(interval, stop) int, as the tests call it: a ticker of the
\* given interval, a running total, and a select over the ticker's channel and
\* the stop channel. On a tick it adds store.CleanupExpired() to the total; once
\* stop is closed it stops the ticker and returns the total. The worker is
\* goroutine Cleaner; env holds its frame. The other goroutines store secrets,
\* as the tests of the worker do.

\* Ticks the ticker delivers in a run.
MaxTicks == 2

\* The worker's frame as the goroutine starts: total := 0, the ticker's channel
\* empty, stop open. (runs: sweeps finished; late: a sweep began after stop was
\* closed; both kept for reference.)
Worker ==
    [pc |-> "select", total |-> 0, tick |-> FALSE, stop |-> FALSE,
     ticks |-> 0, runs |-> 0, late |-> FALSE]

Started == env # NoCall

\* go func() { result <- runCleanupWorker(interval, stop) }()
runCleanupWorker ==
    /\ env = NoCall
    /\ pc[Cleaner] = "idle"
    /\ env' = Worker
    /\ UNCHANGED <<now, heap, objs, secrets, mu, drawn, pc, loc, ret, issued, fate, req, resp>>

\* The ticker's interval has passed: a value is put on ticker.C, whose buffer
\* holds one (a tick that finds the buffer full is dropped).
TickerFires ==
    /\ Started
    /\ env.pc # "returned"
    /\ ~env.tick
    /\ env.ticks < MaxTicks
    /\ env' = [env EXCEPT !.tick = TRUE, !.ticks = @ + 1]
    /\ UNCHANGED <<now, heap, objs, secrets, mu, drawn, pc, loc, ret, issued, fate, req, resp>>

\* close(stop), by the goroutine that started the worker.
CloseStop ==
    /\ Started
    /\ ~env.stop
    /\ env' = [env EXCEPT !.stop = TRUE]
    /\ UNCHANGED <<now, heap, objs, secrets, mu, drawn, pc, loc, ret, issued, fate, req, resp>>

\* A variant of the select that serves a pending tick whether or not stop is
\* closed.
WorkerSweepIgnoringStop ==
    /\ Started
    /\ env.pc = "select"
    /\ env.tick
    /\ env' = [env EXCEPT !.pc = "sweep", !.tick = FALSE, !.late = @ \/ env.stop]
    /\ pc' = [pc EXCEPT ![Cleaner] = "Cleanup_lock"]
    /\ UNCHANGED <<now, heap, objs, secrets, mu, drawn, loc, ret, issued, fate, req, resp>>

\* case <-ticker.C: the worker calls store.CleanupExpired(). A closed stop is
\* served first.
WorkerSweep ==
    /\ Started
    /\ env.pc = "select"
    /\ env.tick
    /\ ~env.stop
    /\ env' = [env EXCEPT !.pc = "sweep", !.tick = FALSE, !.late = @ \/ env.stop]
    /\ pc' = [pc EXCEPT ![Cleaner] = "Cleanup_lock"]
    /\ UNCHANGED <<now, heap, objs, secrets, mu, drawn, loc, ret, issued, fate, req, resp>>

\* A variant of the addition that keeps the last sweep's count only.
WorkerAddLastOnly ==
    /\ Started
    /\ pc[Cleaner] = "unlock"
    /\ mu' = [mu EXCEPT !.writer = IF mu.writer = Cleaner THEN 0 ELSE mu.writer]
    /\ pc' = [pc EXCEPT ![Cleaner] = "idle"]
    /\ env' = [env EXCEPT !.total = ret[Cleaner].count, !.pc = "select", !.runs = @ + 1]
    /\ loc' = [loc EXCEPT ![Cleaner] = NoLocals]
    /\ ret' = [ret EXCEPT ![Cleaner] = NoResult]
    /\ objs' = [a \in LiveObjs(Cleaner, secrets, objs) |-> objs[a]]
    /\ heap' = [c \in LiveCells(Cleaner, secrets, objs, heap) |-> heap[c]]
    /\ issued' = [id \in {i \in DOMAIN issued : fate[i] = "live"} |-> issued[id]]
    /\ UNCHANGED <<now, secrets, drawn, fate, req, resp>>

\* total += store.CleanupExpired(): the sweep returns (its deferred Unlock
\* runs), the worker adds the count and goes back to the select.
WorkerAdd ==
    /\ Started
    /\ pc[Cleaner] = "unlock"
    /\ mu' = [mu EXCEPT !.writer = IF mu.writer = Cleaner THEN 0 ELSE mu.writer]
    /\ pc' = [pc EXCEPT ![Cleaner] = "idle"]
    /\ env' = [env EXCEPT !.total = @ + ret[Cleaner].count, !.pc = "select", !.runs = @ + 1]
    /\ loc' = [loc EXCEPT ![Cleaner] = NoLocals]
    /\ ret' = [ret EXCEPT ![Cleaner] = NoResult]
    /\ objs' = [a \in LiveObjs(Cleaner, secrets, objs) |-> objs[a]]
    /\ heap' = [c \in LiveCells(Cleaner, secrets, objs, heap) |-> heap[c]]
    /\ issued' = [id \in {i \in DOMAIN issued : fate[i] = "live"} |-> issued[id]]
    /\ UNCHANGED <<now, secrets, drawn, fate, req, resp>>

\* case <-stop: ticker.Stop(); return total
WorkerReturn ==
    /\ Started
    /\ env.pc = "select"
    /\ env.stop
    /\ env' = [env EXCEPT !.pc = "returned"]
    /\ UNCHANGED <<now, heap, objs, secrets, mu, drawn, pc, loc, ret, issued, fate, req, resp>>

\* A step of the worker goroutine.
WorkerRuns ==
    \/ WorkerSweep \/ WorkerAdd \/ WorkerReturn
    \/ Lock(Cleaner) \/ CleanupNow(Cleaner) \/ CleanupReturn(Cleaner)
    \/ \E id \in AllIDs : CleanupVisit(Cleaner, id)

WNext ==
    \/ Tick
    \/ runCleanupWorker
    \/ TickerFires
    \/ CloseStop
    \/ WorkerSweep
    \/ WorkerAdd
    \/ WorkerReturn
    \/ \E p \in Procs : Lock(p)
    \/ CleanupNow(Cleaner)
    \/ \E id \in AllIDs : CleanupVisit(Cleaner, id)
    \/ CleanupReturn(Cleaner)
    \/ \E p \in Clients, c \in Contents, l \in Lifetimes : StoreCall(p, c, l)
    \/ \E p \in Clients : StoreCheck(p)
    \/ \E p \in Clients : StoreInsert(p)
    \/ \E p \in Clients : Unlock(p)

\* The Go scheduler runs every goroutine that can run, and sync.RWMutex hands
\* the lock to a goroutine that keeps waiting for it. Nothing obliges the
\* ticker to fire before stop is closed, a client to make a call, or the
\* starting goroutine to close stop.
WSpec ==
    /\ Init
    /\ [][WNext]_vars
    /\ WF_vars(WorkerRuns)
    /\ \A p \in Clients : WF_vars(Running(p))
    /\ SF_vars(Lock(Cleaner))

\* ---------------------------------------------- properties of the worker
\* The secrets the sweeps have removed so far.
Swept == {id \in DOMAIN fate : fate[id] = "swept"}

\* C32. The value runCleanupWorker returns is the number of secrets its sweeps
\* removed, summed over all the ticks it served (between sweeps the running
\* total is that number too); every secret a sweep removes had expired when
\* the sweep read the clock, so a secret that has not expired is neither
\* removed nor counted, and over a store holding no expired secret the worker
\* returns 0.
C32_WorkerReturnsTotal ==
    [][/\ (Started' /\ env'.pc \in {"select", "returned"}) =>
              env'.total = Cardinality(Swept')
       /\ \A id \in Swept' \ Swept :
              /\ Recorded(id).ExpiresAt < loc[Cleaner].now
              /\ loc[Cleaner].now <= now]_vars

C32_Witness ==
    /\ Started
    /\ env.pc = "returned"
    /\ env.runs = 2
    /\ env.total = 2
    /\ DOMAIN secrets # {}

Expired(t, e) == t > e

\* C34. Get and CleanupExpired decide expiry alike, by the time they read
\* being strictly after expires_at: a Get that finds its entry refuses it
\* exactly when the entry has expired at the time the Get read, a sweep
\* removes exactly the entries that have expired at the time the sweep read,
\* and so a Get returns no secret at a time at which a sweep would remove it.
C34_SameExpiryPredicate ==
    /\ \A p \in Procs : ReturningGetPresent(p) =>
           /\ ret[p].kind = "NotFound" <=> Expired(loc[p].now, issued[loc[p].id].ExpiresAt)
           /\ ret[p].kind = "GetOK" <=> ~Expired(loc[p].now, issued[loc[p].id].ExpiresAt)
    /\ \A p \in Procs : ReturningCleanup(p) =>
           \A id \in loc[p].before :
               id \notin DOMAIN secrets <=> Expired(loc[p].now, Recorded(id).ExpiresAt)

\* A sweep removed one entry and kept the entry whose expires_at is the time
\* the sweep read, and a Get has returned a secret.
C34_Witness ==
    \E p \in Procs :
        /\ ReturningCleanup(p)
        /\ ret[p].count = 1
        /\ \E id \in DOMAIN secrets : loc[p].now = Recorded(id).ExpiresAt
        /\ \E id \in DOMAIN fate : fate[id] = "read"

\* C35. Store never evicts: no step of a Store removes an entry, and a Store
\* returns the capacity error exactly when it finds MaxUnreadSecrets entries in
\* the map, whether or not those entries have expired; the map then stays as
\* it is, so that the next Store succeeds only once a Get or a sweep has
\* removed an entry.
C35_StoreNeverEvicts ==
    [][\A p \in Procs :
           (pc[p] \in {"Store_check", "Store_insert"} /\ pc'[p] # pc[p]) =>
               /\ DOMAIN secrets \subseteq DOMAIN secrets'
               /\ pc[p] = "Store_check" =>
                      /\ secrets' = secrets
                      /\ (pc'[p] = "unlock" /\ ret'[p].kind = "StoreErr")
                             <=> Cardinality(DOMAIN secrets) >= MaxUnreadSecrets
                      /\ pc'[p] = "Store_insert"
                             <=> Cardinality(DOMAIN secrets) < MaxUnreadSecrets]_vars

\* A Store returns the capacity error while every entry of the full map has
\* expired.
C35_Witness ==
    \E p \in Procs :
        /\ Returning(p) /\ ret[p].kind = "StoreErr"
        /\ Cardinality(DOMAIN secrets) = MaxUnreadSecrets
        /\ \A id \in DOMAIN secrets : now > objs[secrets[id]].ExpiresAt

\* ------------------------------------------ properties of the store's frame
\* What the map holds under id: the fields of the Secret it points to.
Held(id) ==
    [Content |-> Bytes(heap, objs[secrets[id]].Content),
     CreatedAt |-> objs[secrets[id]].CreatedAt,
     ExpiresAt |-> objs[secrets[id]].ExpiresAt]

\* The map with what it holds.
HeldStore == [id \in DOMAIN secrets |-> Held(id)]

\* Goroutine p takes a step of a call of the given kind in progress.
Steps(p, at) == pc[p] \in at /\ pc'[p] # pc[p]

\* The Get of goroutine p is removing id: it has copied the entry and wipes
\* and deletes it before it releases the mutex.
Removing(p, id) == pc[p] \in {"Get_wipe", "Get_delete"} /\ loc[p].id = id

\* C36. A stored secret is immutable and each operation touches its own id
\* only. From its insertion to its removal (for a Get, the wipe and the
\* delete it does under the mutex once it has copied the entry) an entry
\* holds the content, created_at and expires_at Store gave it; a step of
\* Get(id) leaves every other entry as it is, whatever the Get returns; and
\* a Get on an absent id, a Count and a Store that fails leave the whole
\* store as it is.
C36_ImmutableAndLocal ==
    [][ /\ \A id \in DOMAIN secrets :
               (\A p \in Procs : ~Removing(p, id)) =>
                   /\ Held(id) = Recorded(id)
                   /\ id \in DOMAIN secrets' =>
                          \/ Held(id)' = Held(id)
                          \/ \E p \in Procs : Removing(p, id)'
        /\ \A p \in Procs :
               /\ Steps(p, {"Get_lock", "Get_lookup", "Get_check", "Get_wipe", "Get_delete"}) =>
                      \A id \in DOMAIN secrets \ {loc[p].id} :
                          /\ id \in DOMAIN secrets'
                          /\ Held(id)' = Held(id)
               /\ (Steps(p, {"Get_lock", "Get_lookup"}) /\ loc[p].id \notin DOMAIN secrets) =>
                      HeldStore' = HeldStore
               /\ (Steps(p, {"unlock"}) /\ ret[p].kind \in {"NotFound", "StoreErr"}) =>
                      HeldStore' = HeldStore
               /\ Steps(p, {"Count_rlock", "Count_len", "runlock"}) =>
                      HeldStore' = HeldStore
               /\ Steps(p, {"Store_lock", "Store_check"}) =>
                      HeldStore' = HeldStore ]_vars

\* A Get returns one secret while the map still holds another, stored before
\* the clock moved, with the fields Store gave it.
C36_Witness ==
    \E p \in Procs :
        /\ ReturningGet(p) /\ ret[p].kind = "GetOK"
        /\ \E id \in DOMAIN secrets :
               /\ Held(id) = Recorded(id)
               /\ now > Held(id).CreatedAt

\* The ids that left the store by way w.
Left(w) == {id \in DOMAIN fate : fate[id] = w}

\* C37. Accounting: the number of Stores that have inserted is the number of
\* entries in the map plus the secrets Gets have taken out to return plus
\* the entries Gets have removed as expired plus the entries sweeps have
\* removed; every stored secret is in the map or has left it by exactly one
\* of these ways, once. A Get that returns a secret has taken out the one it
\* returns, and a sweep returns the number of entries it removed.
C37_Accounting ==
    /\ drawn = Cardinality(DOMAIN secrets) + Cardinality(Left("read"))
                   + Cardinality(Left("expired")) + Cardinality(Left("swept"))
    /\ Cardinality(DOMAIN fate) = drawn
    /\ \A id \in DOMAIN fate : fate[id] \in {"live", "read", "expired", "swept"}
    /\ DOMAIN secrets = Left("live")
    /\ \A p \in Procs : (ReturningGet(p) /\ ret[p].kind = "GetOK") => loc[p].id \in Left("read")
    /\ \A p \in Procs : ReturningCleanup(p) =>
           ret[p].count = Cardinality(loc[p].before \cap Left("swept"))

\* Four secrets were stored: one is in the map, one was read, one was found
\* expired by a Get and one was removed by a sweep.
C37_Witness ==
    /\ drawn = 4
    /\ Cardinality(DOMAIN secrets) = 1
    /\ Cardinality(Left("read")) = 1
    /\ Cardinality(Left("expired")) = 1
    /\ Cardinality(Left("swept")) = 1

\* -------------------------------------------------- calls under fair scheduling
\* The payload of the Stores of this specification; their lifetime is 0.
OneContent == <<104>>

\* Every goroutine calls every method, in any interleaving.
FNext ==
    \/ Tick
    \/ \E p \in Procs : Lock(p)
    \/ \E p \in Procs : Unlock(p)
    \/ \E p \in Procs : StoreCall(p, OneContent, 0)
    \/ \E p \in Procs : StoreCheck(p)
    \/ \E p \in Procs : StoreInsert(p)
    \/ \E p \in Procs, id \in DOMAIN fate \cup {NoSuchID} : GetCall(p, id)
    \/ \E p \in Procs : GetLookup(p)
    \/ \E p \in Procs : GetExpired(p)
    \/ \E p \in Procs : GetCopy(p)
    \/ \E p \in Procs : GetWipe(p)
    \/ \E p \in Procs : GetDelete(p)
    \/ \E p \in Procs : CountCall(p)
    \/ \E p \in Procs : RLock(p)
    \/ \E p \in Procs : CountLen(p)
    \/ \E p \in Procs : RUnlock(p)
    \/ \E p \in Procs : CleanupCall(p)
    \/ \E p \in Procs : CleanupNow(p)
    \/ \E p \in Procs, id \in AllIDs : CleanupVisit(p, id)
    \/ \E p \in Procs : CleanupReturn(p)

\* The Go scheduler runs every goroutine that can run, and sync.RWMutex hands
\* the lock to a goroutine that keeps waiting for it: a waiting writer holds
\* back new readers, and a waiter that has been starved is served next.
\* Nothing obliges a goroutine to make a call, or the clock to move.
FairSpec ==
    /\ Init
    /\ [][FNext]_vars
    /\ \A p \in Procs : WF_vars(Running(p))
    /\ \A p \in Procs : SF_vars(Lock(p))
    /\ \A p \in Procs : SF_vars(RLock(p))

\* Goroutine p is inside a call of the store.
InCall(p) == pc[p] # "idle"

\* Goroutine p holds the mutex, for writing or for reading.
Holds(p) == mu.writer = p \/ p \in mu.readers

\* C38. No deadlock: a goroutine holds the mutex only inside a call, between
\* the one acquisition and the release every return path makes, and under
\* fair scheduling every call of Store, Get, Count and CleanupExpired
\* returns, however the calls interleave.
C38_EveryCallReturns ==
    /\ [](\A p \in Procs : Holds(p) => pc[p] \notin {"idle", "Store_lock", "Get_lock", "Count_rlock", "Cleanup_lock"})
    /\ \A p \in Procs : InCall(p) ~> ~InCall(p)

\* A Store is returning the capacity error, the mutex still held, while the
\* other goroutine waits for the mutex, a Get having found its entry expired
\* before.
C38_Witness ==
    \E p, q \in Procs :
        /\ Returning(p) /\ ret[p].kind = "StoreErr" /\ Holds(p)
        /\ pc[q] \in {"Get_lock", "Cleanup_lock", "Count_rlock", "Store_lock"}
        /\ Left("expired") # {}

\* ------------------------------------------------------ wipeSecret by pointer
\* Calls of wipeSecret made on one pointer.
MaxWipes == 2

\* The nil pointer, and the address of the Secret the pointer refers to
\* otherwise.
Nil == 0
SecretAt == 1

\* Field values of the Secret a caller passes: ids and payloads, the empty
\* string among them.
WipeIDs == {<< >>, <<65>>, generateID(1)}
WipeContents == {<< >>, <<104>>, <<104, 105>>}

\* wipeSecret(secret) on the structs o: nothing for nil.
wipeSecretAt(o, h, secret) ==
    IF secret = Nil THEN o ELSE [o EXCEPT ![secret] = wipeSecret(h, o[secret])]

\* The heap after wipeSecret(secret).
wipeHeapAt(o, h, secret) ==
    IF secret = Nil THEN h ELSE wipeHeap(h, o[secret])

\* A caller holds nil, or a pointer to a Secret with any field values.
PInit ==
    /\ now = 0
    /\ secrets = << >>
    /\ mu = Unlocked
    /\ drawn = 0
    /\ pc = [p \in Procs |-> "idle"]
    /\ loc = [p \in Procs |-> NoLocals]
    /\ ret = [p \in Procs |-> NoResult]
    /\ issued = << >>
    /\ fate = << >>
    /\ req = [p \in Procs |-> NoRequest]
    /\ resp = [p \in Procs |-> NoResponse]
    /\ \/ /\ objs = << >>
          /\ heap = << >>
          /\ env = [secret |-> Nil, calls |-> 0, first |-> << >>, once |-> << >>,
                    cells |-> << >>]
       \/ \E id \in WipeIDs, c \in WipeContents, created \in 0..MaxTime, l \in 0..(MaxLifetime + 1) :
             /\ heap = IF c = << >> THEN << >> ELSE (SecretAt :> c)
             /\ objs = (SecretAt :> [ID |-> id,
                                     Content |-> IF c = << >> THEN EmptyString
                                                 ELSE [ptr |-> SecretAt, len |-> Len(c)],
                                     CreatedAt |-> created, ExpiresAt |-> created + l])
             /\ env = [secret |-> SecretAt, calls |-> 0, first |-> objs, once |-> << >>,
                       cells |-> heap]

\* wipeSecret(secret), once more on the same pointer. (first, once, cells:
\* the structs before the first call and after it, and the heap before the
\* first call, kept for reference.)
wipeSecretCall ==
    /\ env.calls < MaxWipes
    /\ objs' = wipeSecretAt(objs, heap, env.secret)
    /\ heap' = wipeHeapAt(objs, heap, env.secret)
    /\ env' = [env EXCEPT !.calls = @ + 1,
                          !.once = IF env.calls = 0 THEN objs' ELSE @]
    /\ UNCHANGED <<now, secrets, mu, drawn, pc, loc, ret, issued, fate, req, resp>>

PNext == wipeSecretCall

PSpec == PInit /\ [][PNext]_vars

\* C39. wipeSecret(nil) changes nothing; after wipeSecret on a non-nil
\* pointer the Secret's Content and ID are both the empty string, its other
\* fields being as before; and a second wipeSecret on the same pointer leaves
\* what the first left.
C39_WipeSecret ==
    /\ env.secret = Nil => objs = env.first /\ heap = env.cells
    /\ (env.secret # Nil /\ env.calls >= 1) =>
           /\ objs[env.secret].Content = EmptyString
           /\ Bytes(heap, objs[env.secret].Content) = << >>
           /\ objs[env.secret].ID = << >>
           /\ objs[env.secret].CreatedAt = env.first[env.secret].CreatedAt
           /\ objs[env.secret].ExpiresAt = env.first[env.secret].ExpiresAt
    /\ env.calls = 2 => objs = env.once

\* wipeSecret has been applied twice to a Secret that had an id and a payload.
C39_Witness ==
    /\ env.secret # Nil
    /\ env.calls = 2
    /\ env.first[env.secret].ID = generateID(1)
    /\ env.first[env.secret].Content.len = 2

====
